---- MODULE Spec2Model ----
(***************************************************************************)
(* Model of the Taiko L2 block-building core of taikochain/go-ethereum:    *)
(*   - miner/taiko_worker.go : BuildTransactionsLists, commitL2Transactions *)
(*                             sealBlockWith                               *)
(*   - consensus/taiko       : verifyHeader, VerifyHeader, VerifyHeaders,   *)
(*                             Prepare, Finalize, Seal                     *)
(*   - eth/taiko_api_backend.go : HeadL1Origin, TxPoolContent, filterTxs   *)
(* Each component has its own specification over the shared variables:     *)
(*   Spec, SpecFair   the multi-list driver and the List Builder           *)
(*   SpecHeader       single-header verification                           *)
(*   SpecBatch        concurrent batch verification (with fairness)        *)
(*   SpecSeal, SpecSealFair  block sealing                                 *)
(*   SpecOrigin       the L1 origin store and HeadL1Origin                 *)
(*   SpecContent      TxPoolContent and its pre-filter                     *)
(***************************************************************************)
EXTENDS Integers, Sequences, FiniteSets, TLC

(***************************************************************************)
(* Bounds of the model and program constants.                              *)
(***************************************************************************)
\* params.TxGas: the minimum gas of a transaction.
TxGas == 21000
\* Longest pending queue of one sender.
MaxQueueLen == 2
\* Largest maxTransactionsPerBlock tried.
MaxTxCount == 2
\* Largest maxBytesPerTxList tried.
MaxBytes == 3
\* Largest maxTransactionsLists tried.
MaxLists == 2
\* Nonce every sender has in the parent state.
ParentNonce == 1
\* Number of irregular items (a transaction that is not a plain transfer, a
\* queue that does not start at the sender's state nonce) in one pending set.
MaxSpecial == 1
\* Width in bits of int and uint64 (64 in the source, scaled down here).
IntBits == 4

Senders == {"a", "b"}

\* Kinds of pending transaction:
\*   plain   a transfer of TxGas gas, 1 byte when encoded
\*   heavy   a call of 2*TxGas gas, 2 bytes when encoded
\*   rlp     rlp.EncodeToBytes fails on it
\*   replay  tx.Protected() while the chain config is not yet EIP155
\*   type    its transaction type is not supported by the signer of the fork
\*   strange its execution fails with another error (insufficient funds, ...)
Kinds == {"plain", "heavy", "rlp", "replay", "type", "strange"}

\* len(rlp.EncodeToBytes(tx))
TxSize(tx) == IF tx.kind = "heavy" THEN 2 ELSE 1
\* tx.Gas()
TxGasLimit(tx) == IF tx.kind = "heavy" THEN 2 * TxGas ELSE TxGas

RECURSIVE SumBytes(_)
SumBytes(s) == IF s = <<>> THEN 0 ELSE TxSize(Head(s)) + SumBytes(Tail(s))

RECURSIVE Flatten(_)
Flatten(ss) == IF ss = <<>> THEN <<>> ELSE Head(ss) \o Flatten(Tail(ss))

\* The largest uint64.
MaxUint64 == 2^IntBits - 1
\* The conversion int(v) of a uint64: the upper half wraps to the negatives.
int(v) == IF v >= 2^(IntBits - 1) THEN v - 2^IntBits ELSE v
\* The conversion uint64(v) of an int64.
uint64(v) == v % 2^IntBits
\* The values tried for a uint64 limit.
Limits(max) == (0..max) \cup {MaxUint64}

Range(s) == {s[k] : k \in 1..Len(s)}
NoDup(s) == \A j, k \in 1..Len(s) : j # k => s[j] # s[k]

VARIABLES
    \* inputs of BuildTransactionsLists
    pool,            \* w.eth.TxPool().Pending(false): sender -> queue
    localAccounts,   \* the senders designated local
    maxTransactionsPerBlock,
    blockMaxGasLimit,
    maxBytesPerTxList,
    maxTransactionsLists,
    \* locals of BuildTransactionsLists
    pc,              \* position of the driver
    pending,         \* the map `pending`, which `remoteTxs` aliases
    locals,          \* TransactionsByPriceAndNonce of the local senders
    remotes,         \* TransactionsByPriceAndNonce of the other senders
    env,             \* the execution environment
    txsLists,        \* the lists returned so far
    i,               \* loop counter of the driver
    \* locals of commitL2Transactions
    isLocal, accTxListBytes, allTxsCommitted,
    \* history: why each build stopped, what each build reported, and the
    \* environment each build started from
    stopped, reports, startEnvs,
    \* single-header verification
    header,          \* the header to verify
    parent,          \* the header its parentHash may refer to
    chainHeaders,    \* the headers the chain store holds
    headerCache,     \* the hashes in the chain store's header cache
    unixNow,         \* time.Now().Unix()
    hpc,             \* "idle", then "validated" or "verified"
    result,          \* the error returned ("nil": none)
    ruleChecked,     \* history: verifyHeader was applied
    \* batch verification (VerifyHeaders)
    headers,         \* the batch
    gomaxprocs,      \* runtime.GOMAXPROCS(0)
    inputsClosed,    \* close(inputs) has run
    done,            \* the buffer of channel done
    errors,          \* the results array, "unset" where not written
    aborted,         \* the caller has closed abort
    errorsOut,       \* the buffer of channel errorsOut
    received,        \* what the consumer has read from errorsOut
    cin, cout,       \* the coordinator's in and out
    checked,         \* the coordinator's checked
    inputsNil,       \* the coordinator's local inputs is nil
    cpc,             \* the coordinator: "select", "forward", "returned"
    wpc,             \* each worker: "recv", "work", "send", "exit"
    windex,          \* each worker's index
    completed,       \* history: the indices received from done, in order
    lookups,         \* history: the indices whose parent was asked of the chain store
    \* block sealing (sealBlockWith, Taiko.Seal)
    sealIn,          \* the arguments of sealBlockWith and the chain they meet
    sealer,          \* the locals of the running sealBlockWith
    sealed,          \* history: what each finished sealBlockWith returned
    engine,          \* a call of Taiko.Seal by another caller: arguments and result
    \* the API backend (eth/taiko_api_backend.go)
    db,              \* the L1 origins in the chain database and the head identifier
    query,           \* a call of HeadL1Origin: position, result, database it met
    content          \* a call of TxPoolContent: arguments, position, result

buildVars == <<pool, localAccounts, maxTransactionsPerBlock, blockMaxGasLimit,
               maxBytesPerTxList, maxTransactionsLists, pc, pending, locals,
               remotes, env, txsLists, i, isLocal, accTxListBytes,
               allTxsCommitted, stopped, reports, startEnvs>>

headerVars == <<header, parent, chainHeaders, headerCache, unixNow, hpc, result,
                ruleChecked>>

batchVars == <<headers, gomaxprocs, inputsClosed, done, errors, aborted, errorsOut,
               received, cin, cout, checked, inputsNil, cpc, wpc, windex, completed,
               lookups>>

sealVars == <<sealIn, sealer, sealed, engine>>

apiVars == <<db, query, content>>

vars == <<buildVars, headerVars, batchVars, sealVars, apiVars>>

(***************************************************************************)
(* Ordered Transaction Supply (types.TransactionsByPriceAndNonce).         *)
(* A supply maps each sender that still has transactions to its queue.     *)
(* All transactions of a sender pay the same price; "a" pays more than "b".*)
(***************************************************************************)
PriceRank(s) == IF s = "a" THEN 1 ELSE 2

Without(f, s) == [t \in (DOMAIN f) \ {s} |-> f[t]]

NewTransactionsByPriceAndNonce(txs) == txs

Exhausted(supply) == DOMAIN supply = {}

BestSender(supply) ==
    CHOOSE s \in DOMAIN supply : \A t \in DOMAIN supply : PriceRank(s) <= PriceRank(t)

Peek(supply) == Head(supply[BestSender(supply)])

Shift(supply) ==
    LET s == BestSender(supply) IN
    IF Len(supply[s]) > 1
    THEN [supply EXCEPT ![s] = Tail(@)]
    ELSE Without(supply, s)

Pop(supply) == Without(supply, BestSender(supply))

(***************************************************************************)
(* The pending sets tried.                                                 *)
(***************************************************************************)
QueueOf(s, start, kinds) ==
    [k \in 1..Len(kinds) |-> [from |-> s, nonce |-> start + k - 1, kind |-> kinds[k]]]

StartNonces == {ParentNonce - 1, ParentNonce, ParentNonce + 1}

\* The irregular items of a queue: a first nonce that is not the sender's
\* nonce in the parent state, a transaction that is not a plain transfer.
Specials(q) ==
    (IF q # <<>> /\ q[1].nonce # ParentNonce THEN 1 ELSE 0)
    + Cardinality({k \in 1..Len(q) : q[k].kind # "plain"})

\* The queues of sender s: consecutive nonces from a start nonce.
Queues(s) ==
    {q \in {QueueOf(s, st, ks) : st \in StartNonces,
                                ks \in UNION {[1..n -> Kinds] : n \in 0..MaxQueueLen}} :
        Specials(q) <= MaxSpecial}

\* The map Pending returns: only the senders that have transactions.
PendingOf(qa, qb) ==
    [s \in {t \in Senders : (IF t = "a" THEN qa ELSE qb) # <<>>} |->
        IF s = "a" THEN qa ELSE qb]

PendingSets ==
    UNION {{PendingOf(qa, qb) :
              qb \in {q \in Queues("b") : Specials(qa) + Specials(q) <= MaxSpecial}} :
           qa \in Queues("a")}

GasLimits == {TxGas - 1, TxGas, 3 * TxGas}

\* The state of the parent block: every sender's nonce.
ParentState == [s \in Senders |-> ParentNonce]

\* The environment prepareWork returns: the parent's state, nothing
\* accumulated, no gas pool yet.
prepareWork == [tcount |-> 0, txs |-> <<>>, gasPool |-> 0, gasLimit |-> 0,
                state |-> ParentState, receipts |-> <<>>]

\* A result channel: its capacity, its buffer, whether a receiver waits on
\* it, and what receivers have taken from it.
Chan(cap) == [cap |-> cap, buf |-> <<>>, waiting |-> FALSE, got |-> <<>>]

\* No arguments of sealBlockWith.
SealInOff ==
    [decodes |-> FALSE, txList |-> <<>>, gasLimit |-> 0, extraData |-> 0,
     parentKnown |-> FALSE, timestamp |-> 0]

\* No sealBlockWith running.
SealerOff ==
    [pc |-> "off", now |-> 0, txs |-> <<>>, env |-> << >>, i |-> 0,
     commitErrs |-> <<>>, tried |-> <<>>, block |-> << >>, results |-> Chan(0),
     err |-> "nil"]

\* No call of Taiko.Seal by another caller.
EngineOff ==
    [pc |-> "off", block |-> << >>, results |-> Chan(0), before |-> Chan(0),
     stop |-> "nil", err |-> "nil"]

\* Block sealing not in use.
SealIdle ==
    /\ sealIn = SealInOff /\ sealer = SealerOff /\ sealed = <<>> /\ engine = EngineOff

\* An empty chain database: no head identifier, no origin.
EmptyDb == [head |-> << >>, origins |-> << >>, log |-> <<>>]
QueryOff == [pc |-> "off", ret |-> << >>, err |-> "nil", met |-> EmptyDb]
ContentOff ==
    [pc |-> "off", handler |-> "none", locals |-> <<>>, limits |-> << >>,
     pending |-> << >>, localsAddresses |-> <<>>, ret |-> << >>, err |-> "nil",
     splitted |-> <<>>, txsCount |-> 0, txLists |-> <<>>, cut |-> << >>]

\* The API backend not in use.
ApiIdle == db = EmptyDb /\ query = QueryOff /\ content = ContentOff

\* Header verification not in use.
HeaderIdle ==
    /\ header = << >> /\ parent = << >> /\ chainHeaders = {} /\ headerCache = {}
    /\ unixNow = 0 /\ hpc = "off" /\ result = "nil" /\ ruleChecked = FALSE

\* Batch verification not in use.
BatchIdle ==
    /\ headers = <<>> /\ gomaxprocs = 0 /\ inputsClosed = FALSE /\ done = <<>>
    /\ errors = <<>> /\ aborted = FALSE /\ errorsOut = <<>> /\ received = <<>>
    /\ cin = 0 /\ cout = 0 /\ checked = <<>> /\ inputsNil = FALSE /\ cpc = "off"
    /\ wpc = <<>> /\ windex = <<>> /\ completed = <<>> /\ lookups = {}

Init ==
    /\ HeaderIdle
    /\ BatchIdle
    /\ SealIdle
    /\ ApiIdle
    /\ pool \in PendingSets
    /\ localAccounts \in SUBSET Senders
    /\ maxTransactionsPerBlock \in Limits(MaxTxCount)
    /\ blockMaxGasLimit \in GasLimits
    /\ maxBytesPerTxList \in Limits(MaxBytes)
    /\ maxTransactionsLists \in Limits(MaxLists)
    /\ pc = "start"
    /\ pending = pool
    /\ locals = << >>
    /\ remotes = << >>
    /\ env = prepareWork
    /\ txsLists = <<>>
    /\ i = 0
    /\ isLocal = TRUE
    /\ accTxListBytes = 0
    /\ allTxsCommitted = FALSE
    /\ stopped = "none"
    /\ reports = <<>>
    /\ startEnvs = <<>>

\* What no step of the build changes: its inputs and the other components.
fixedVars == <<pool, localAccounts, maxTransactionsPerBlock, blockMaxGasLimit,
               maxBytesPerTxList, maxTransactionsLists, headerVars, batchVars,
               sealVars, apiVars>>

(***************************************************************************)
(* BuildTransactionsLists, up to the loop over the lists.                  *)
(***************************************************************************)
\* The senders moved from remoteTxs (= pending) to localTxs.
\* Mutant: no sender is moved to localTxs.
LocalSendersNone == {}
LocalSenders == {s \in DOMAIN pool : s \in localAccounts /\ Len(pool[s]) > 0}

BuildTransactionsLists ==
    /\ pc = "start"
    /\ LET localTxs  == [s \in LocalSenders |-> pool[s]]
           remoteTxs == [s \in (DOMAIN pool) \ LocalSenders |-> pool[s]]
       IN /\ pending' = remoteTxs
          /\ IF DOMAIN remoteTxs = {}
             THEN /\ pc' = "done"
                  /\ UNCHANGED <<locals, remotes, env>>
             ELSE /\ locals' = NewTransactionsByPriceAndNonce(localTxs)
                  /\ remotes' = NewTransactionsByPriceAndNonce(remoteTxs)
                  /\ env' = prepareWork
                  /\ pc' = "loop"
    /\ UNCHANGED <<fixedVars, txsLists, i, isLocal, accTxListBytes,
                   allTxsCommitted, stopped, reports, startEnvs>>

(***************************************************************************)
(* commitTransaction (miner/worker.go) and the state transition it runs:   *)
(* the signer rejects an unsupported type, preCheck compares the nonce     *)
(* with the sender's nonce in the state, buyGas checks the balance and     *)
(* takes the gas from the pool.  Only a success changes the environment.   *)
(***************************************************************************)
commitTransaction(e, tx) ==
    IF tx.kind = "type" THEN "ErrTxTypeNotSupported"
    ELSE IF tx.nonce < e.state[tx.from] THEN "ErrNonceTooLow"
    ELSE IF tx.nonce > e.state[tx.from] THEN "ErrNonceTooHigh"
    ELSE IF tx.kind = "strange" THEN "ErrInsufficientFunds"
    ELSE IF e.gasPool < TxGasLimit(tx) THEN "ErrGasLimitReached"
    ELSE "nil"

Committed(e, tx) ==
    [e EXCEPT !.state[tx.from] = @ + 1,
              !.gasPool = @ - TxGasLimit(tx),
              !.txs = Append(@, tx),
              !.receipts = Append(@, tx)]

(***************************************************************************)
(* The closure commitTxs and the loop over the lists.                      *)
(***************************************************************************)
\* Mutant: every list starts from the parent state again.
ResetEnvFreshState(e) ==
    [e EXCEPT !.tcount = 0, !.txs = <<>>, !.state = ParentState,
              !.gasPool = blockMaxGasLimit, !.gasLimit = blockMaxGasLimit]
\* Mutant: the transaction counter is not reset.
ResetEnvKeepCount(e) ==
    [e EXCEPT !.txs = <<>>,
              !.gasPool = blockMaxGasLimit, !.gasLimit = blockMaxGasLimit]
ResetEnv(e) ==
    [e EXCEPT !.tcount = 0, !.txs = <<>>,
              !.gasPool = blockMaxGasLimit, !.gasLimit = blockMaxGasLimit]

commitTxs ==
    /\ pc = "loop"
    /\ i < int(maxTransactionsLists)
    /\ env' = ResetEnv(env)
    /\ startEnvs' = Append(startEnvs, env')
    /\ isLocal' = TRUE
    /\ allTxsCommitted' = FALSE
    /\ accTxListBytes' = 0
    /\ stopped' = "none"
    /\ pc' = "commit"
    /\ UNCHANGED <<fixedVars, pending, locals, remotes, txsLists, i, reports>>

LoopExit ==
    /\ pc = "loop"
    /\ ~(i < int(maxTransactionsLists))
    /\ pc' = "done"
    /\ UNCHANGED <<fixedVars, pending, locals, remotes, env, txsLists, i, isLocal,
                   accTxListBytes, allTxsCommitted, stopped, reports, startEnvs>>

\* Mutant: the loop does not break when a build reports full drainage.
AppendListNoBreak ==
    /\ pc = "ret"
    /\ txsLists' = Append(txsLists, env.txs)
    /\ reports' = Append(reports, allTxsCommitted)
    /\ pc' = "loop" /\ i' = i + 1
    /\ UNCHANGED <<fixedVars, pending, locals, remotes, env, isLocal,
                   accTxListBytes, allTxsCommitted, stopped, startEnvs>>
\* The return of commitTxs and the rest of the loop body.
AppendList ==
    /\ pc = "ret"
    /\ txsLists' = Append(txsLists, env.txs)
    /\ reports' = Append(reports, allTxsCommitted)
    /\ IF allTxsCommitted
       THEN pc' = "done" /\ i' = i
       ELSE pc' = "loop" /\ i' = i + 1
    /\ UNCHANGED <<fixedVars, pending, locals, remotes, env, isLocal,
                   accTxListBytes, allTxsCommitted, stopped, startEnvs>>

(***************************************************************************)
(* commitL2Transactions: one action per way through the loop body.         *)
(***************************************************************************)
\* The supply `txs` points to.
txs == IF isLocal THEN locals ELSE remotes

SetTxs(new) ==
    IF isLocal THEN locals' = new /\ remotes' = remotes
               ELSE remotes' = new /\ locals' = locals

EnoughGas == env.gasPool >= TxGas
HasTx == pc = "commit" /\ EnoughGas /\ ~Exhausted(txs)
Encodes(tx) == tx.kind # "rlp"
\* Mutant: the byte limit compared with > instead of >=.
FitsOffByOne(tx) == ~(accTxListBytes + TxSize(tx) > int(maxBytesPerTxList))
Fits(tx) == ~(accTxListBytes + TxSize(tx) >= int(maxBytesPerTxList))
ReplayProtected(tx) == tx.kind = "replay"
Executes == HasTx /\ Encodes(Peek(txs)) /\ Fits(Peek(txs)) /\ ~ReplayProtected(Peek(txs))

loopFrame == <<fixedVars, pending, txsLists, i, reports, startEnvs>>

Break(why) ==
    /\ pc' = "ret"
    /\ stopped' = why
    /\ UNCHANGED <<loopFrame, locals, remotes, env, isLocal, accTxListBytes>>

\* Mutant: running out of gas with nothing left pending counts as drained.
NotEnoughGasDrained ==
    /\ pc = "commit"
    /\ ~EnoughGas
    /\ Break("gas")
    /\ allTxsCommitted' = (Exhausted(locals) /\ Exhausted(remotes))

NotEnoughGas ==
    /\ pc = "commit"
    /\ ~EnoughGas
    /\ Break("gas")
    /\ UNCHANGED allTxsCommitted

SwitchToRemote ==
    /\ pc = "commit" /\ EnoughGas /\ Exhausted(txs)
    /\ isLocal
    /\ isLocal' = FALSE
    /\ UNCHANGED <<loopFrame, pc, locals, remotes, env, accTxListBytes,
                   allTxsCommitted, stopped>>

AllDone ==
    /\ pc = "commit" /\ EnoughGas /\ Exhausted(txs)
    /\ ~isLocal
    /\ allTxsCommitted' = TRUE
    /\ Break("drained")

Discard(supply) ==
    /\ SetTxs(supply)
    /\ UNCHANGED <<loopFrame, pc, env, isLocal, accTxListBytes, allTxsCommitted, stopped>>

EncodeFailed ==
    /\ HasTx
    /\ ~Encodes(Peek(txs))
    /\ Discard(Pop(txs))

ByteLimitReached ==
    /\ HasTx /\ Encodes(Peek(txs))
    /\ ~Fits(Peek(txs))
    /\ Break("bytes")
    /\ UNCHANGED allTxsCommitted

ReplayProtectedIgnored ==
    /\ HasTx /\ Encodes(Peek(txs)) /\ Fits(Peek(txs))
    /\ ReplayProtected(Peek(txs))
    /\ Discard(Pop(txs))

GasLimitReached ==
    /\ Executes
    /\ commitTransaction(env, Peek(txs)) = "ErrGasLimitReached"
    /\ Discard(Pop(txs))

\* Mutant: a low nonce drops the whole sender.
NonceTooLowPop ==
    /\ Executes
    /\ commitTransaction(env, Peek(txs)) = "ErrNonceTooLow"
    /\ Discard(Pop(txs))
NonceTooLow ==
    /\ Executes
    /\ commitTransaction(env, Peek(txs)) = "ErrNonceTooLow"
    /\ Discard(Shift(txs))

\* Mutant: only the transaction is skipped, not the sender.
NonceTooHighShift ==
    /\ Executes
    /\ commitTransaction(env, Peek(txs)) = "ErrNonceTooHigh"
    /\ Discard(Shift(txs))
NonceTooHigh ==
    /\ Executes
    /\ commitTransaction(env, Peek(txs)) = "ErrNonceTooHigh"
    /\ Discard(Pop(txs))

\* errors.Is(err, nil): the transaction is in env.txs.
CountReached(e) == e.tcount >= int(maxTransactionsPerBlock)

TxCommitted ==
    /\ Executes
    /\ commitTransaction(env, Peek(txs)) = "nil"
    /\ LET e == [Committed(env, Peek(txs)) EXCEPT !.tcount = @ + 1] IN
       /\ env' = e
       /\ IF CountReached(e)
          THEN /\ pc' = "ret"
               /\ stopped' = "count"
               /\ UNCHANGED <<locals, remotes, accTxListBytes>>
          ELSE /\ accTxListBytes' = accTxListBytes + TxSize(Peek(txs))
               /\ SetTxs(Shift(txs))
               /\ UNCHANGED <<pc, stopped>>
    /\ UNCHANGED <<loopFrame, isLocal, allTxsCommitted>>

TxTypeNotSupported ==
    /\ Executes
    /\ commitTransaction(env, Peek(txs)) = "ErrTxTypeNotSupported"
    /\ Discard(Pop(txs))

\* Mutant: the failed transaction stays at the head of the supply.
StrangeErrorRetry ==
    /\ Executes
    /\ commitTransaction(env, Peek(txs)) \notin
         {"nil", "ErrGasLimitReached", "ErrNonceTooLow", "ErrNonceTooHigh",
          "ErrTxTypeNotSupported"}
    /\ Discard(txs)
StrangeError ==
    /\ Executes
    /\ commitTransaction(env, Peek(txs)) \notin
         {"nil", "ErrGasLimitReached", "ErrNonceTooLow", "ErrNonceTooHigh",
          "ErrTxTypeNotSupported"}
    /\ Discard(Shift(txs))

commitL2Transactions ==
    \/ NotEnoughGas \/ SwitchToRemote \/ AllDone \/ EncodeFailed
    \/ ByteLimitReached \/ ReplayProtectedIgnored \/ GasLimitReached
    \/ NonceTooLow \/ NonceTooHigh \/ TxCommitted \/ TxTypeNotSupported
    \/ StrangeError

Next ==
    \/ BuildTransactionsLists
    \/ commitTxs
    \/ LoopExit
    \/ AppendList
    \/ commitL2Transactions

Spec == Init /\ [][Next]_vars

(***************************************************************************)
(* Properties of the List Builder and of the multi-list driver.            *)
(***************************************************************************)
Building == pc \in {"commit", "ret"}
\* The lists returned so far and the list being built.
AllLists == IF Building THEN Append(txsLists, env.txs) ELSE txsLists
PoolTxs == UNION {Range(pool[s]) : s \in DOMAIN pool}
CountFrom(list, s) == Cardinality({k \in 1..Len(list) : list[k].from = s})

\* C1: the encoded sizes of the transactions of a list always sum to at most
\* maxBytesPerTxList, and to less than it once the list holds a transaction;
\* and a step taken when the candidate at the head of the supply would make
\* the total meet or exceed maxBytesPerTxList stops the build on the byte
\* limit, not fully drained, and leaves the list as it is.
C1_ByteLimit ==
    /\ [](\A k \in 1..Len(AllLists) :
            /\ SumBytes(AllLists[k]) <= maxBytesPerTxList
            /\ AllLists[k] # <<>> => SumBytes(AllLists[k]) < maxBytesPerTxList)
    /\ [][(/\ HasTx /\ Encodes(Peek(txs))
           /\ SumBytes(env.txs) + TxSize(Peek(txs)) >= maxBytesPerTxList)
          => (/\ pc' = "ret" /\ stopped' = "bytes"
              /\ env' = env
              /\ ~allTxsCommitted')]_vars

\* C1 witness: the byte limit stopped a list that holds a transaction, on a
\* candidate that would have made the total meet or exceed the limit.
C1_Witness ==
    /\ pc = "ret" /\ stopped = "bytes" /\ env.txs # <<>>
    /\ SumBytes(env.txs) + TxSize(Peek(txs)) >= maxBytesPerTxList

\* C2: no list holds more than maxTransactionsPerBlock transactions,
\* for every maxTransactionsPerBlock including 0.
C2_CountLimit ==
    \A k \in 1..Len(AllLists) : Len(AllLists[k]) <= maxTransactionsPerBlock

\* C3: over all the lists of one round no pending transaction is committed
\* twice, every committed transaction is a pending one, and so the number
\* committed never exceeds the number of pending transactions.
C3_NoDuplicate ==
    /\ NoDup(Flatten(AllLists))
    /\ Range(Flatten(AllLists)) \subseteq PoolTxs
    /\ Len(Flatten(AllLists)) <= Cardinality(PoolTxs)

\* C3 witness: a build meets, at the head of the supply, a transaction that an
\* earlier list already holds (the count limit stopped that list on it).
C3_Witness ==
    /\ pc = "commit" /\ EnoughGas /\ ~Exhausted(txs)
    /\ Peek(txs) \in Range(Flatten(txsLists))

\* C4: at most maxTransactionsLists lists are built, only the last build can
\* have reported full drainage, and after such a report the driver is done.
C4_DriverStops ==
    /\ Len(AllLists) <= maxTransactionsLists
    /\ Len(reports) = Len(txsLists)
    /\ \A k \in 1..Len(reports) : reports[k] => (k = Len(reports) /\ pc = "done")

\* C4 witness: a build reported full drainage before the maximum number of
\* lists was reached.
C4_Witness ==
    /\ pc = "done" /\ reports # <<>> /\ reports[Len(reports)]
    /\ Len(txsLists) < maxTransactionsLists

C20_NonceTooHighDropsSender ==
    /\ [][(Executes /\ commitTransaction(env, Peek(txs)) = "ErrNonceTooHigh") =>
            LET s == Peek(txs).from IN
            /\ s \notin DOMAIN locals' /\ s \notin DOMAIN remotes'
            /\ \A t \in (DOMAIN txs) \ {s} : t \in DOMAIN txs' /\ txs'[t] = txs[t]
            /\ env' = env
            /\ pc' = "commit"]_vars
    /\ [][(pc = "commit" /\ env'.txs # env.txs) =>
            (HasTx /\ env'.txs = Append(env.txs, Peek(txs)))]_vars
    /\ [][pc # "start" =>
            (DOMAIN locals' \subseteq DOMAIN locals /\
             DOMAIN remotes' \subseteq DOMAIN remotes)]_vars

\* C20 witness: the better-paying sender, with two transactions, started
\* above its state nonce; the round ended with a transaction of the other
\* sender in a list and none of its own.
C20_Witness ==
    /\ pc = "done" /\ localAccounts = {}
    /\ "a" \in DOMAIN pool /\ Len(pool["a"]) = 2 /\ pool["a"][1].nonce > ParentNonce
    /\ \E tx \in Range(Flatten(txsLists)) : tx.from = "b"
    /\ \A tx \in Range(Flatten(txsLists)) : tx.from # "a"

(***************************************************************************)
(* Header Validator (consensus/taiko).                                     *)
(* A header is a record; its hash is an abstract digest, unique to it.  An *)
(* optional *big.Int (Difficulty, BaseFee) is <<>> for nil and <<v>> for v.*)
(***************************************************************************)
\* params.MaximumExtraDataSize
MaximumExtraDataSize == 32
\* params.MaxGasLimit (0x7fffffffffffffff in the source, scaled down here)
MaxGasLimit == 4
\* The wall clock of the verifications tried.
Now == 2
\* Block number of the parent header.
ParentNumber == 1

EmptyUncleHash == "CalcUncleHash(nil)"
\* Header hashes: of the parent the chain may hold, of its own parent, of no
\* header at all, and of the k-th header under verification.
KnownParentHash == <<"p">>
GenesisHash == <<"g">>
UnknownHash == <<"x">>
NewHash(k) == <<"h", k>>
Nil == << >>

\* Mutant: the timestamp is compared with the parent before the extra data
\* is measured.
verifyHeaderOlderFirst(h, p, now) ==
    IF h.time > uint64(now) THEN "FutureBlock"
    ELSE IF h.time < p.time THEN "OlderBlockTime"
    ELSE IF h.extraLen > MaximumExtraDataSize THEN "ExtraDataTooLong"
    ELSE IF h.number - p.number # 1 THEN "InvalidNumber"
    ELSE IF h.difficulty # Nil /\ h.difficulty[1] # 0 THEN "InvalidDifficulty"
    ELSE IF h.gasLimit > MaxGasLimit THEN "InvalidGasLimit"
    ELSE IF h.gasUsed > h.gasLimit THEN "InvalidGasUsed"
    ELSE IF h.uncleHash # EmptyUncleHash THEN "UnclesNotEmpty"
    ELSE IF h.baseFee # Nil THEN "BaseFeeNotZero"
    ELSE "nil"

\* Mutant: a number more than one above the parent's is let through.
verifyHeaderGapAllowed(h, p, now) ==
    IF h.time > uint64(now) THEN "FutureBlock"
    ELSE IF h.extraLen > MaximumExtraDataSize THEN "ExtraDataTooLong"
    ELSE IF h.time < p.time THEN "OlderBlockTime"
    ELSE IF h.number - p.number < 1 THEN "InvalidNumber"
    ELSE IF h.difficulty # Nil /\ h.difficulty[1] # 0 THEN "InvalidDifficulty"
    ELSE IF h.gasLimit > MaxGasLimit THEN "InvalidGasLimit"
    ELSE IF h.gasUsed > h.gasLimit THEN "InvalidGasUsed"
    ELSE IF h.uncleHash # EmptyUncleHash THEN "UnclesNotEmpty"
    ELSE IF h.baseFee # Nil THEN "BaseFeeNotZero"
    ELSE "nil"

verifyHeader(h, p, now) ==
    IF h.time > uint64(now) THEN "FutureBlock"
    ELSE IF h.extraLen > MaximumExtraDataSize THEN "ExtraDataTooLong"
    ELSE IF h.time < p.time THEN "OlderBlockTime"
    ELSE IF h.number - p.number # 1 THEN "InvalidNumber"
    ELSE IF h.difficulty # Nil /\ h.difficulty[1] # 0 THEN "InvalidDifficulty"
    ELSE IF h.gasLimit > MaxGasLimit THEN "InvalidGasLimit"
    ELSE IF h.gasUsed > h.gasLimit THEN "InvalidGasUsed"
    ELSE IF h.uncleHash # EmptyUncleHash THEN "UnclesNotEmpty"
    ELSE IF h.baseFee # Nil THEN "BaseFeeNotZero"
    ELSE "nil"

\* chain.GetHeader(hash, number): <<>> for nil, <<h>> for a header.  The
\* header cache is keyed by the hash alone, the database by number and hash.
GetHeader(hash, number) ==
    LET found == {h \in chainHeaders :
                    h.hash = hash /\ (hash \in headerCache \/ h.number = number)}
    IN IF found = {} THEN Nil ELSE <<CHOOSE h \in found : TRUE>>

\* number - 1 on a uint64: 0 wraps to the largest uint64.
Pred64(number) == (number + MaxUint64) % 2^IntBits

\* Mutant: the checks that need no parent run before the parent is resolved.
VerifyHeaderChecksFirst(h, now) ==
    IF GetHeader(h.hash, h.number) # Nil THEN [err |-> "nil", checked |-> FALSE]
    ELSE IF h.time > uint64(now) THEN [err |-> "FutureBlock", checked |-> TRUE]
    ELSE LET p == GetHeader(h.parentHash, Pred64(h.number)) IN
         IF p = Nil THEN [err |-> "UnknownAncestor", checked |-> FALSE]
         ELSE [err |-> verifyHeader(h, p[1], now), checked |-> TRUE]

\* Taiko.VerifyHeader: the error, and whether verifyHeader was applied.
VerifyHeader(h, now) ==
    IF GetHeader(h.hash, h.number) # Nil THEN [err |-> "nil", checked |-> FALSE]
    ELSE LET p == GetHeader(h.parentHash, Pred64(h.number)) IN
         IF p = Nil THEN [err |-> "UnknownAncestor", checked |-> FALSE]
         ELSE [err |-> verifyHeader(h, p[1], now), checked |-> TRUE]

(***************************************************************************)
(* The headers and chain stores tried.                                     *)
(***************************************************************************)
OptionalInts == {Nil, <<0>>, <<1>>}

Headers ==
    [hash : {NewHash(0)}, parentHash : {KnownParentHash, UnknownHash},
     number : 0..(ParentNumber + 2),
     time : (Now - 1)..(Now + 1),
     extraLen : {MaximumExtraDataSize, MaximumExtraDataSize + 1},
     difficulty : OptionalInts,
     gasLimit : {MaxGasLimit, MaxGasLimit + 1},
     gasUsed : {MaxGasLimit, MaxGasLimit + 1},
     uncleHash : {EmptyUncleHash, "uncles"},
     baseFee : OptionalInts]

Parents ==
    [hash : {KnownParentHash}, parentHash : {GenesisHash}, number : {ParentNumber},
     time : {Now - 1, Now}, extraLen : {0}, difficulty : {<<0>>},
     gasLimit : {MaxGasLimit}, gasUsed : {0}, uncleHash : {EmptyUncleHash},
     baseFee : {Nil}]

\* Block building not in use.
BuildIdle ==
    /\ pool = << >> /\ localAccounts = {} /\ maxTransactionsPerBlock = 0
    /\ blockMaxGasLimit = 0 /\ maxBytesPerTxList = 0 /\ maxTransactionsLists = 0
    /\ pc = "off" /\ pending = << >> /\ locals = << >> /\ remotes = << >>
    /\ env = prepareWork /\ txsLists = <<>> /\ i = 0 /\ isLocal = TRUE
    /\ accTxListBytes = 0 /\ allTxsCommitted = FALSE /\ stopped = "none"
    /\ reports = <<>> /\ startEnvs = <<>>

InitHeader ==
    /\ BuildIdle
    /\ BatchIdle
    /\ SealIdle
    /\ ApiIdle
    /\ header \in Headers
    /\ parent \in Parents
    /\ \E known \in SUBSET {header, parent} :
          /\ chainHeaders = known
          /\ headerCache \in SUBSET {h.hash : h \in known \ {header}}
    /\ unixNow = Now
    /\ hpc = "idle"
    /\ result = "nil"
    /\ ruleChecked = FALSE

\* validate(header, parent, wallClockNow): verifyHeader on the given parent.
Validate ==
    /\ hpc = "idle"
    /\ result' = verifyHeader(header, parent, unixNow)
    /\ ruleChecked' = TRUE
    /\ hpc' = "validated"
    /\ UNCHANGED <<buildVars, batchVars, sealVars, apiVars, header, parent, chainHeaders,
                   headerCache, unixNow>>

\* A call of Taiko.VerifyHeader on the chain store.
VerifyHeaderCall ==
    /\ hpc = "idle"
    /\ LET r == VerifyHeader(header, unixNow) IN
       /\ result' = r.err
       /\ ruleChecked' = r.checked
    /\ hpc' = "verified"
    /\ UNCHANGED <<buildVars, batchVars, sealVars, apiVars, header, parent, chainHeaders,
                   headerCache, unixNow>>

NextHeader == Validate \/ VerifyHeaderCall

SpecHeader == InitHeader /\ [][NextHeader]_vars

(***************************************************************************)
(* Properties of the Header Validator.                                     *)
(***************************************************************************)
\* The nine rules as the design states them, by number.
Passes(k, h, p, now) ==
    CASE k = 1 -> h.time <= now
      [] k = 2 -> h.extraLen <= MaximumExtraDataSize
      [] k = 3 -> h.time >= p.time
      [] k = 4 -> h.number = p.number + 1
      [] k = 5 -> h.difficulty = Nil \/ h.difficulty = <<0>>
      [] k = 6 -> h.gasLimit <= MaxGasLimit
      [] k = 7 -> h.gasUsed <= h.gasLimit
      [] k = 8 -> h.uncleHash = EmptyUncleHash
      [] k = 9 -> h.baseFee = Nil \/ h.baseFee = <<0>>

ErrorOf ==
    <<"FutureBlock", "ExtraDataTooLong", "OlderBlockTime", "InvalidNumber",
      "InvalidDifficulty", "InvalidGasLimit", "InvalidGasUsed", "UnclesNotEmpty",
      "BaseFeeNotZero">>

Failing == {k \in 1..9 : ~Passes(k, header, parent, unixNow)}
Earliest(S) == CHOOSE k \in S : \A j \in S : k <= j

\* C6: validate returns the error of the earliest failing rule in the order
\* FutureBlock, ExtraDataTooLong, OlderBlockTime, InvalidNumber,
\* InvalidDifficulty, InvalidGasLimit, InvalidGasUsed, UnclesNotEmpty,
\* BaseFeeNotZero, and returns no error only when no rule fails.
C6_FirstFailingCheck ==
    hpc = "validated" =>
        /\ Failing # {} => result = ErrorOf[Earliest(Failing)]
        /\ result = "nil" => Failing = {}
        /\ result \in Range(ErrorOf) \cup {"nil"}

\* C6 witness: a header that breaks several rules was reported with the
\* earliest of them.
C6_Witness ==
    /\ hpc = "validated"
    /\ Cardinality(Failing) >= 2
    /\ result = ErrorOf[Earliest(Failing)]

\* C7 as claimed: a header whose number is not the parent's plus one fails
\* with InvalidNumber whatever its other fields are.
C7_AlwaysInvalidNumber ==
    (hpc = "validated" /\ header.number # parent.number + 1) =>
        result = "InvalidNumber"

\* C7 as amended: a header whose number is not the parent's plus one always
\* fails, and fails with InvalidNumber whenever the three earlier rules pass
\* (timestamp not in the future, extra data within the cap, timestamp not
\* older than the parent's), whatever the later fields are.
C7_InvalidNumber ==
    (ruleChecked /\ header.number # parent.number + 1) =>
        /\ result # "nil"
        /\ (\A k \in 1..3 : Passes(k, header, parent, unixNow)) =>
              result = "InvalidNumber"

\* C7 witness: a header with a wrong number and a non-zero difficulty, whose
\* first three rules pass, was rejected with InvalidNumber.
C7_Witness ==
    /\ hpc = "validated"
    /\ header.number # parent.number + 1
    /\ header.difficulty = <<1>>
    /\ \A k \in 1..3 : Passes(k, header, parent, unixNow)
    /\ result = "InvalidNumber"

\* C8: when the eight earlier rules pass, validate rejects with
\* BaseFeeNotZero exactly when the base fee is present and not zero.
C8_BaseFeeNotZero ==
    (hpc = "validated" /\ \A k \in 1..8 : Passes(k, header, parent, unixNow)) =>
        (result = "BaseFeeNotZero" <=> (header.baseFee # Nil /\ header.baseFee # <<0>>))

\* C9: VerifyHeader on a header the chain store does not return, whose
\* parent the chain store does not return for (parentHash, number - 1),
\* gives UnknownAncestor and does not apply the rules.
C9_UnknownAncestor ==
    ( /\ hpc = "verified"
      /\ GetHeader(header.hash, header.number) = Nil
      /\ GetHeader(header.parentHash, Pred64(header.number)) = Nil ) =>
        /\ result = "UnknownAncestor"
        /\ ~ruleChecked

\* C9 witness: a header that breaks a rule and whose parent is unknown was
\* answered with UnknownAncestor.
C9_Witness ==
    /\ hpc = "verified"
    /\ header \notin chainHeaders
    /\ header.parentHash = UnknownHash
    /\ Failing # {}
    /\ result = "UnknownAncestor"

(***************************************************************************)
(* Batch verification (Taiko.VerifyHeaders): the workers, the coordinator, *)
(* the caller that may close abort and the consumer of errorsOut.          *)
(* Indices are those of the Go slices, from 0.                             *)
(***************************************************************************)
\* Longest batch tried.
MaxBatch == 3
\* Largest GOMAXPROCS tried.
MaxProcs == 2

N == Len(headers)
\* workers := runtime.GOMAXPROCS(0); if len(headers) < workers { workers = len(headers) }
Workers == IF N < gomaxprocs THEN N ELSE gomaxprocs

\* Mutant: a header that does not follow its predecessor is looked up in the
\* chain store.
resolveParentFallback(hs, index) ==
    IF index = 0 \/ hs[index].hash # hs[index + 1].parentHash
    THEN [parent |-> GetHeader(hs[index + 1].parentHash, Pred64(hs[index + 1].number)),
          lookup |-> TRUE]
    ELSE [parent |-> <<hs[index]>>, lookup |-> FALSE]

\* The parent verifyHeaderWorker resolves for headers[index], and whether it
\* called chain.GetHeader for it.
resolveParent(hs, index) ==
    IF index = 0
    THEN [parent |-> GetHeader(hs[1].parentHash, Pred64(hs[1].number)), lookup |-> TRUE]
    ELSE IF hs[index].hash = hs[index + 1].parentHash
         THEN [parent |-> <<hs[index]>>, lookup |-> FALSE]
         ELSE [parent |-> Nil, lookup |-> FALSE]

verifyHeaderWorker(hs, index, now) ==
    LET p == resolveParent(hs, index).parent
    IN IF p = Nil THEN "UnknownAncestor"
       ELSE verifyHeader(hs[index + 1], p[1], now)

\* The batches tried: header k follows header k - 1 (the first one follows
\* the known parent), is cut off from it, carries a future timestamp, or
\* names the known parent as its parent instead of header k - 1.
Variants == {"ok", "unlinked", "future", "restart"}

BatchHeader(k, variant) ==
    [hash |-> NewHash(k),
     parentHash |-> IF variant = "unlinked" THEN UnknownHash
                    ELSE IF k = 0 \/ variant = "restart" THEN KnownParentHash
                    ELSE NewHash(k - 1),
     number |-> ParentNumber + 1 + k,
     time |-> IF variant = "future" THEN Now + 1 ELSE Now,
     extraLen |-> 0, difficulty |-> <<0>>, gasLimit |-> MaxGasLimit,
     gasUsed |-> 0, uncleHash |-> EmptyUncleHash, baseFee |-> Nil]

Batches ==
    {[k \in DOMAIN vs |-> BatchHeader(k - 1, vs[k])] :
        vs \in UNION {[1..n -> Variants] : n \in 0..MaxBatch}}

InitBatch ==
    /\ BuildIdle
    /\ SealIdle
    /\ ApiIdle
    /\ header = << >> /\ hpc = "off" /\ result = "nil" /\ ruleChecked = FALSE
    /\ parent \in {p \in Parents : p.time = Now}
    /\ chainHeaders \in {{}, {parent}}
    /\ headerCache = {}
    /\ unixNow = Now
    /\ headers \in Batches
    /\ gomaxprocs \in 1..MaxProcs
    /\ inputsClosed = FALSE
    /\ done = <<>>
    /\ errors = [k \in 1..N |-> "unset"]
    /\ aborted = FALSE
    /\ errorsOut = <<>>
    /\ received = <<>>
    /\ cin = 0 /\ cout = 0
    /\ checked = [k \in 1..N |-> FALSE]
    /\ inputsNil = FALSE
    /\ cpc = "select"
    /\ wpc = [w \in 1..Workers |-> "recv"]
    /\ windex = [w \in 1..Workers |-> 0]
    /\ completed = <<>>
    /\ lookups = {}

batchFixed == <<buildVars, headerVars, sealVars, apiVars, headers, gomaxprocs>>


\* Mutant: in is not advanced after an index was sent.
SendInputAgain(w) ==
    /\ cpc = "select" /\ ~inputsNil
    /\ wpc[w] = "recv"
    /\ windex' = [windex EXCEPT ![w] = cin]
    /\ wpc' = [wpc EXCEPT ![w] = "work"]
    /\ cin' = IF \E v \in 1..Workers : v # w /\ wpc[v] = "recv" THEN cin ELSE cin + 1
    /\ inputsNil' = (cin' = N)
    /\ UNCHANGED <<batchFixed, lookups, completed, inputsClosed, done, errors, aborted, errorsOut,
                   received, cout, checked, cpc>>

\* case inputs <- in, taken together with the receive of worker w.
SendInput(w) ==
    /\ cpc = "select" /\ ~inputsNil
    /\ wpc[w] = "recv"
    /\ windex' = [windex EXCEPT ![w] = cin]
    /\ wpc' = [wpc EXCEPT ![w] = "work"]
    /\ cin' = cin + 1
    /\ inputsNil' = (cin + 1 = N)
    /\ UNCHANGED <<batchFixed, lookups, completed, inputsClosed, done, errors, aborted, errorsOut,
                   received, cout, checked, cpc>>

\* case index := <-done, up to the first test of checked[out].
RecvDone ==
    /\ cpc = "select"
    /\ done # <<>>
    /\ checked' = [checked EXCEPT ![Head(done) + 1] = TRUE]
    /\ done' = Tail(done)
    /\ completed' = Append(completed, Head(done))
    /\ cpc' = "forward"
    /\ UNCHANGED <<batchFixed, lookups, inputsClosed, errors, aborted, errorsOut,
                   received, cin, cout, inputsNil, wpc, windex>>

\* Mutant: the result forwarded is the one just completed, not errors[out].
ForwardCompleted ==
    /\ cpc = "forward"
    /\ checked[cout + 1]
    /\ Len(errorsOut) < N
    /\ errorsOut' = Append(errorsOut, errors[completed[Len(completed)] + 1])
    /\ IF cout = N - 1
       THEN cpc' = "returned" /\ inputsClosed' = TRUE /\ cout' = cout
       ELSE cout' = cout + 1 /\ UNCHANGED <<cpc, inputsClosed>>
    /\ UNCHANGED <<batchFixed, lookups, completed, done, errors, aborted, received, cin, checked,
                   inputsNil, wpc, windex>>

\* One turn of the loop `for ...; checked[out]; out++`: errorsOut <- errors[out],
\* then the return (with the deferred close(inputs)) or out++.
Forward ==
    /\ cpc = "forward"
    /\ checked[cout + 1]
    /\ Len(errorsOut) < N
    /\ errorsOut' = Append(errorsOut, errors[cout + 1])
    /\ IF cout = N - 1
       THEN cpc' = "returned" /\ inputsClosed' = TRUE /\ cout' = cout
       ELSE cout' = cout + 1 /\ UNCHANGED <<cpc, inputsClosed>>
    /\ UNCHANGED <<batchFixed, lookups, completed, done, errors, aborted, received, cin, checked,
                   inputsNil, wpc, windex>>

\* checked[out] is false: back to the select.
ForwardEnd ==
    /\ cpc = "forward"
    /\ ~checked[cout + 1]
    /\ cpc' = "select"
    /\ UNCHANGED <<batchFixed, lookups, completed, inputsClosed, done, errors, aborted, errorsOut,
                   received, cin, cout, checked, inputsNil, wpc, windex>>

\* Mutant: the abort case goes round the loop again instead of returning.
RecvAbortContinue ==
    /\ cpc = "select"
    /\ aborted
    /\ cpc' = "select"
    /\ UNCHANGED <<batchFixed, lookups, completed, inputsClosed, done, errors, aborted,
                   errorsOut, received, cin, cout, checked, inputsNil, wpc, windex>>

\* case <-abort: return, with the deferred close(inputs).
RecvAbort ==
    /\ cpc = "select"
    /\ aborted
    /\ cpc' = "returned"
    /\ inputsClosed' = TRUE
    /\ UNCHANGED <<batchFixed, lookups, completed, done, errors, aborted, errorsOut, received, cin,
                   cout, checked, inputsNil, wpc, windex>>

Coordinator ==
    \/ \E w \in 1..Workers : SendInput(w)
    \/ RecvDone \/ Forward \/ ForwardEnd \/ RecvAbort

\* errors[index] = t.verifyHeaderWorker(chain, headers, seals, index, unixNow)
WorkerVerify(w) ==
    /\ wpc[w] = "work"
    /\ errors' = [errors EXCEPT ![windex[w] + 1] =
                     verifyHeaderWorker(headers, windex[w], unixNow)]
    /\ lookups' = IF resolveParent(headers, windex[w]).lookup
                   THEN lookups \cup {windex[w]} ELSE lookups
    /\ wpc' = [wpc EXCEPT ![w] = "send"]
    /\ UNCHANGED <<batchFixed, completed, inputsClosed, done, aborted, errorsOut, received,
                   cin, cout, checked, inputsNil, cpc, windex>>

\* done <- index
WorkerDone(w) ==
    /\ wpc[w] = "send"
    /\ Len(done) < Workers
    /\ done' = Append(done, windex[w])
    /\ wpc' = [wpc EXCEPT ![w] = "recv"]
    /\ UNCHANGED <<batchFixed, lookups, completed, inputsClosed, errors, aborted, errorsOut, received,
                   cin, cout, checked, inputsNil, cpc, windex>>

\* range inputs ends: the channel is closed.
WorkerExit(w) ==
    /\ wpc[w] = "recv"
    /\ inputsClosed
    /\ wpc' = [wpc EXCEPT ![w] = "exit"]
    /\ UNCHANGED <<batchFixed, lookups, completed, inputsClosed, done, errors, aborted, errorsOut,
                   received, cin, cout, checked, inputsNil, cpc, windex>>

Worker(w) == WorkerVerify(w) \/ WorkerDone(w) \/ WorkerExit(w)

\* The caller closes abort.
Abort ==
    /\ cpc # "off"
    /\ ~aborted
    /\ aborted' = TRUE
    /\ UNCHANGED <<batchFixed, lookups, completed, inputsClosed, done, errors, errorsOut, received,
                   cin, cout, checked, inputsNil, cpc, wpc, windex>>

\* The consumer reads a result.
Receive ==
    /\ errorsOut # <<>>
    /\ received' = Append(received, Head(errorsOut))
    /\ errorsOut' = Tail(errorsOut)
    /\ UNCHANGED <<batchFixed, lookups, completed, inputsClosed, done, errors, aborted, cin, cout,
                   checked, inputsNil, cpc, wpc, windex>>

NextBatch ==
    \/ Coordinator
    \/ \E w \in 1..Workers : Worker(w)
    \/ Abort
    \/ Receive

\* The Go scheduler runs every goroutine that can take a step; the caller
\* and the consumer are free to do nothing.
SpecBatch ==
    /\ InitBatch /\ [][NextBatch]_vars
    /\ WF_vars(Coordinator)
    /\ \A w \in 1..MaxProcs : WF_vars(w <= Workers /\ Worker(w))

(***************************************************************************)
(* Properties of batch verification.                                       *)
(***************************************************************************)
\* Everything sent on errorsOut so far, in the order sent.
Delivered == received \o errorsOut
Expected == [k \in 1..N |-> verifyHeaderWorker(headers, k - 1, unixNow)]

\* C10: the results sent on errorsOut are, in order, the results of the
\* first headers of the batch, never more than N of them; and unless the
\* caller aborts, all N are eventually sent.
C10_ResultsInInputOrder ==
    /\ [](Len(Delivered) <= N /\ Delivered = SubSeq(Expected, 1, Len(Delivered)))
    /\ <>(aborted \/ Delivered = Expected)

\* C10 witness: without an abort, a later header completed before an
\* earlier one, and all the results, not all equal, were delivered.
C10_Witness ==
    /\ ~aborted /\ cpc = "returned"
    /\ \E j, k \in 1..Len(completed) : j < k /\ completed[j] > completed[k]
    /\ \E k \in 1..N : Expected[k] # Expected[1]
    /\ Delivered = Expected

\* C11: a result written for header i > 0 was computed without asking the
\* chain store; it is verifyHeader on the preceding header of the batch when
\* that header's hash is header i's parent hash, and UnknownAncestor when it
\* is not.  The result for header 0 is UnknownAncestor when the chain store
\* has no parent for it, and verifyHeader on the stored parent otherwise.
C11_ParentResolution ==
    \A k \in 1..N : errors[k] # "unset" =>
        LET stored == GetHeader(headers[1].parentHash, Pred64(headers[1].number)) IN
        IF k = 1
        THEN /\ stored = Nil => errors[k] = "UnknownAncestor"
             /\ stored # Nil => errors[k] = verifyHeader(headers[1], stored[1], unixNow)
        ELSE /\ (k - 1) \notin lookups
             /\ headers[k - 1].hash = headers[k].parentHash =>
                   errors[k] = verifyHeader(headers[k], headers[k - 1], unixNow)
             /\ headers[k - 1].hash # headers[k].parentHash =>
                   errors[k] = "UnknownAncestor"

\* C11 witness: with the parent in the chain store, a header that names it
\* instead of its predecessor got UnknownAncestor, and a header that follows
\* its predecessor was accepted.
C11_Witness ==
    /\ chainHeaders # {}
    /\ \E k \in 2..N : /\ headers[k].parentHash = KnownParentHash
                       /\ errors[k] = "UnknownAncestor"
    /\ \E k \in 2..N : /\ headers[k].parentHash = headers[k - 1].hash
                       /\ errors[k] = "nil"

\* C12 as claimed: once abort is closed the coordinator sends no further
\* index to a worker and no further result to errorsOut.
C12_NothingAfterAbort ==
    [][aborted => (cin' = cin /\ Delivered' = Delivered)]_vars

\* C12 as amended: once abort is closed the coordinator eventually returns,
\* and once it has returned it sends no index and no result.
C12_AbortReturns ==
    /\ aborted ~> (cpc = "returned")
    /\ [][cpc = "returned" =>
            (cpc' = "returned" /\ cin' = cin /\ Delivered' = Delivered)]_vars

\* C12 witness: the coordinator returned on the abort, results outstanding.
C12_Witness ==
    /\ aborted /\ cpc = "returned"
    /\ Len(Delivered) < N

\* C13: for N >= 1, whatever the caller and the consumer do, the coordinator
\* returns and every worker leaves its loop.
C13_AllTerminate ==
    (N >= 1) => <>(cpc = "returned" /\ \A w \in 1..Workers : wpc[w] = "exit")

\* C31: for an empty batch (N = 0) the coordinator returns unless the caller
\* closes abort first, so that no goroutine is left at the select.
C31_EmptyBatchReturns ==
    (N = 0) => <>(aborted \/ cpc = "returned")

(***************************************************************************)
(* Taiko.Seal (consensus/taiko).  A block is a record of its header, its   *)
(* transactions and its receipts.                                          *)
(***************************************************************************)
\* header.Number.Uint64(): the low 64 bits of the number.
BigUint64(n) == n % 2^IntBits

\* block.Header(): a copy of the header.
Header(b) == b.header
\* block.WithSeal(header): the block with the header replaced by a copy of it.
WithSeal(b, h) == [b EXCEPT !.header = h]

\* A send on the channel can proceed: a free slot, or a receiver waiting.
CanSend(ch) == Len(ch.buf) < ch.cap \/ ch.waiting
Send(ch, v) ==
    IF ch.waiting
    THEN [ch EXCEPT !.waiting = FALSE, !.got = Append(@, v)]
    ELSE [ch EXCEPT !.buf = Append(@, v)]

\* Mutant: the genesis block is sealed like any other.
SealGenesisAccepted(block, results, stop) ==
    LET hdr == Header(block)
        sent == IF CanSend(results)
                THEN {[err |-> "nil", results |-> Send(results, WithSeal(block, hdr))]}
                ELSE {}
        onStop == IF stop = "closed" THEN {[err |-> "nil", results |-> results]} ELSE {}
    IN IF sent \cup onStop = {}
       THEN {[err |-> "nil", results |-> results]}
       ELSE sent \cup onStop

\* Mutant: a result nobody can take is reported as an error.
SealDefaultFails(block, results, stop) ==
    LET hdr == Header(block)
        number == BigUint64(hdr.number)
        sent == IF CanSend(results)
                THEN {[err |-> "nil", results |-> Send(results, WithSeal(block, hdr))]}
                ELSE {}
        onStop == IF stop = "closed" THEN {[err |-> "nil", results |-> results]} ELSE {}
    IN IF number = 0 THEN {[err |-> "InvalidNumber", results |-> results]}
       ELSE IF sent \cup onStop = {}
       THEN {[err |-> "ResultNotRead", results |-> results]}
       ELSE sent \cup onStop

\* Taiko.Seal: the ways the call can end, each with the error returned and
\* the result channel it leaves.  The select takes any of its cases that can
\* proceed, and the default when none can; a nil stop never can.
Seal(block, results, stop) ==
    LET hdr == Header(block)
        number == BigUint64(hdr.number)
        sent == IF CanSend(results)
                THEN {[err |-> "nil", results |-> Send(results, WithSeal(block, hdr))]}
                ELSE {}
        onStop == IF stop = "closed" THEN {[err |-> "nil", results |-> results]} ELSE {}
    IN IF number = 0 THEN {[err |-> "InvalidNumber", results |-> results]}
       ELSE IF sent \cup onStop = {}
       THEN {[err |-> "nil", results |-> results]}
       ELSE sent \cup onStop

(***************************************************************************)
(* A call of Taiko.Seal by a caller of its own: any block, any result      *)
(* channel, any stop channel.                                              *)
(***************************************************************************)
SealHeader(number) ==
    [parentHash |-> KnownParentHash, number |-> number, time |-> Now,
     gasLimit |-> MaxGasLimit, extra |-> 0, root |-> ParentState,
     uncleHash |-> EmptyUncleHash, difficulty |-> <<0>>]

\* The blocks handed to Seal: the genesis block and later ones.
SealBlocks ==
    {[header |-> SealHeader(n), txs |-> ts, receipts |-> ts] :
        n \in 0..(ParentNumber + 1),
        ts \in {<<>>, <<[from |-> "a", nonce |-> ParentNonce, kind |-> "plain"]>>}}

\* The result channels: unbuffered with or without a receiver waiting, of
\* capacity one, empty (with or without a receiver waiting) or full.
ResultChans ==
    {[Chan(c) EXCEPT !.waiting = w] : c \in {0, 1}, w \in BOOLEAN}
    \cup {[Chan(1) EXCEPT !.buf = <<b>>] : b \in {x \in SealBlocks : x.txs = <<>>}}

StopChans == {"nil", "open", "closed"}

InitEngine ==
    /\ sealIn = SealInOff /\ sealer = SealerOff /\ sealed = <<>>
    /\ \E b \in SealBlocks, ch \in ResultChans, st \in StopChans :
          engine = [pc |-> "call", block |-> b, results |-> ch, before |-> ch,
                    stop |-> st, err |-> "nil"]

EngineSeal ==
    /\ engine.pc = "call"
    /\ \E o \in Seal(engine.block, engine.results, engine.stop) :
          engine' = [engine EXCEPT !.pc = "returned", !.err = o.err,
                                   !.results = o.results]
    /\ UNCHANGED <<buildVars, headerVars, batchVars, apiVars, sealIn, sealer, sealed>>

(***************************************************************************)
(* sealBlockWith (miner/taiko_worker.go).                                  *)
(***************************************************************************)
\* Longest transaction list sealed.
MaxSealTxs == 3
\* Number of times the same arguments are sealed.
MaxSeals == 2

\* Kinds of transaction in a proposed list: as in the pool, and
\*   badsig  no sender can be recovered from its signature
SealKinds == {"plain", "heavy", "badsig", "strange"}

SealTxs == [from : {"a"}, nonce : {ParentNonce, ParentNonce + 1}, kind : SealKinds]

SealInputs ==
    [decodes : BOOLEAN,
     txList : UNION {[1..n -> SealTxs] : n \in 0..MaxSealTxs},
     gasLimit : {TxGas, 3 * TxGas},
     extraData : {0, 1},
     parentKnown : BOOLEAN,
     timestamp : {Now}]

\* A new call of sealBlockWith at wall-clock time now.
SealerStart(now) == [SealerOff EXCEPT !.pc = "start", !.now = now]

InitSealer ==
    /\ engine = EngineOff
    /\ sealIn \in {x \in SealInputs : x.decodes \/ x.txList = <<>>}
    /\ sealer = SealerStart(Now)
    /\ sealed = <<>>

InitSeal ==
    /\ BuildIdle /\ HeaderIdle /\ BatchIdle /\ ApiIdle
    /\ (InitEngine \/ InitSealer)

sealFrame == <<buildVars, headerVars, batchVars, apiVars, sealIn, engine>>

\* Taiko.Prepare: the parent must be known; the difficulty is zero.
Prepare(hdr, parentKnown) ==
    IF ~parentKnown THEN [err |-> "UnknownAncestor", header |-> hdr]
    ELSE [err |-> "nil", header |-> [hdr EXCEPT !.difficulty = <<0>>]]

\* w.prepareWork(params): the header of the child of the parent, prepared by
\* the engine, and the parent's state; << >> when it fails.
prepareWorkWith(params, parentKnown) ==
    LET hdr == [parentHash |-> params.parentHash, number |-> ParentNumber + 1,
                time |-> params.timestamp, coinbase |-> params.coinbase,
                mixDigest |-> params.random, gasLimit |-> MaxGasLimit, extra |-> 0,
                root |-> Nil, uncleHash |-> Nil, difficulty |-> Nil]
        prepared == Prepare(hdr, parentKnown)
    IN IF prepared.err # "nil" THEN Nil
       ELSE <<prepareWork @@ [header |-> prepared.header]>>

\* Mutant: the block is stamped with the wall clock, as the list builder does.
generateParamsClock(timestamp, now) ==
    [timestamp |-> now, forceTime |-> TRUE, parentHash |-> KnownParentHash,
     coinbase |-> "Beneficiary", random |-> "MixHash", noUncle |-> TRUE,
     noTxs |-> FALSE]
\* The parameters sealBlockWith hands to prepareWork.
generateParams(timestamp, now) ==
    [timestamp |-> timestamp, forceTime |-> TRUE, parentHash |-> KnownParentHash,
     coinbase |-> "Beneficiary", random |-> "MixHash", noUncle |-> TRUE,
     noTxs |-> FALSE]

\* Taiko.Finalize: the root of the state, no uncles, no difficulty.
Finalize(hdr, state) ==
    [hdr EXCEPT !.root = state, !.uncleHash = EmptyUncleHash, !.difficulty = <<0>>]

FinalizeAndAssemble(hdr, state, ts, receipts) ==
    [header |-> Finalize(hdr, state), txs |-> ts, receipts |-> receipts]

\* Mutant: the result channel has no buffer.
makeResultsUnbuffered == Chan(0)
\* make(chan *types.Block, 1)
makeResults == Chan(1)

\* Mutant: the first transaction that fails ends the loop.
ContinueBreaks(k, n) == n + 1
\* continue: the loop goes on with the next transaction of the list.
Continue(k, n) == k + 1

\* sealBlockWith returns block and err.
SealRet(block, err) == [sealer EXCEPT !.pc = "ret", !.block = block, !.err = err]

\* Mutant: an empty list is let through.
SealDecodeAllowsEmpty ==
    /\ sealer.pc = "start"
    /\ sealer' = IF ~sealIn.decodes
                 THEN SealRet(Nil, "failed to decode txList")
                 ELSE [sealer EXCEPT !.pc = "prepare", !.txs = sealIn.txList]
    /\ UNCHANGED <<sealFrame, sealed>>

\* Lines 112-122: the list is decoded and must not be empty.
SealDecode ==
    /\ sealer.pc = "start"
    /\ sealer' = IF ~sealIn.decodes
                 THEN SealRet(Nil, "failed to decode txList")
                 ELSE IF Len(sealIn.txList) = 0
                 THEN SealRet(Nil, "too less transactions in the block")
                 ELSE [sealer EXCEPT !.pc = "prepare", !.txs = sealIn.txList]
    /\ UNCHANGED <<sealFrame, sealed>>

\* Lines 124-154: the environment, the overrides of the metadata, the gas pool.
SealPrepare ==
    /\ sealer.pc = "prepare"
    /\ LET params == generateParams(sealIn.timestamp, sealer.now)
           made == prepareWorkWith(params, sealIn.parentKnown)
       IN sealer' =
            IF made = Nil THEN SealRet(Nil, "UnknownAncestor")
            ELSE LET e == [made[1] EXCEPT !.header.gasLimit = sealIn.gasLimit,
                                          !.header.extra = sealIn.extraData]
                 IN [sealer EXCEPT !.pc = "loop", !.i = 1,
                                   !.env = <<[e EXCEPT !.gasPool = e.header.gasLimit]>>]
    /\ UNCHANGED <<sealFrame, sealed>>

\* Lines 156-172: one iteration of the loop over the decoded list.
SealCommitTx ==
    /\ sealer.pc = "loop"
    /\ sealer.i <= Len(sealer.txs)
    /\ LET tx == sealer.txs[sealer.i]
           e == sealer.env[1]
           n == Len(sealer.txs)
           err == IF tx.kind = "badsig" THEN "ErrInvalidSig" ELSE commitTransaction(e, tx)
       IN sealer' =
            IF err # "nil"
            THEN [sealer EXCEPT !.commitErrs = Append(@, err),
                                !.tried = Append(@, [i |-> sealer.i, err |-> err]),
                                !.i = Continue(sealer.i, n)]
            ELSE [sealer EXCEPT !.env = <<[Committed(e, tx) EXCEPT !.tcount = @ + 1]>>,
                                !.tried = Append(@, [i |-> sealer.i, err |-> "nil"]),
                                !.i = sealer.i + 1]
    /\ UNCHANGED <<sealFrame, sealed>>

\* Lines 176-179: the block is finalized and assembled.
SealFinalize ==
    /\ sealer.pc = "loop"
    /\ sealer.i > Len(sealer.txs)
    /\ LET e == sealer.env[1]
       IN sealer' = [sealer EXCEPT !.pc = "seal",
                        !.block = <<FinalizeAndAssemble(e.header, e.state, e.txs, e.receipts)>>]
    /\ UNCHANGED <<sealFrame, sealed>>

\* Lines 181-184: the engine seals into a new channel, without a stop channel.
SealSeal ==
    /\ sealer.pc = "seal"
    /\ \E o \in Seal(sealer.block[1], makeResults, "nil") :
          sealer' = IF o.err # "nil" THEN SealRet(Nil, o.err)
                    ELSE [sealer EXCEPT !.pc = "recv", !.results = o.results]
    /\ UNCHANGED <<sealFrame, sealed>>

\* Lines 185-187: the block is received from the channel and returned.
SealReceive ==
    /\ sealer.pc = "recv"
    /\ sealer.results.buf # <<>>
    /\ sealer' = [SealRet(<<Head(sealer.results.buf)>>, "nil") EXCEPT
                    !.results.buf = Tail(@),
                    !.results.got = Append(@, Head(sealer.results.buf))]
    /\ UNCHANGED <<sealFrame, sealed>>

\* The caller keeps the outcome and calls again with the same arguments.
SealAgain ==
    /\ sealer.pc = "ret"
    /\ sealed' = Append(sealed, [block |-> sealer.block, err |-> sealer.err,
                                 env |-> sealer.env])
    /\ sealer' = IF Len(sealed) + 1 < MaxSeals
                 THEN SealerStart(sealer.now + 1)
                 ELSE [sealer EXCEPT !.pc = "done"]
    /\ UNCHANGED sealFrame

NextSeal ==
    \/ EngineSeal
    \/ SealDecode
    \/ SealPrepare
    \/ SealCommitTx
    \/ SealFinalize
    \/ SealSeal
    \/ SealReceive
    \/ SealAgain

SpecSeal == InitSeal /\ [][NextSeal]_vars

\* The scheduler keeps running the goroutine that calls Seal and receives.
SpecSealFair ==
    /\ SpecSeal
    /\ WF_vars(EngineSeal) /\ WF_vars(SealSeal) /\ WF_vars(SealReceive)

\* The call of Seal under observation has returned, for a block of number n.
SealReturned == engine.pc = "returned"
SealNumber == BigUint64(Header(engine.block).number)
\* What the channel holds once the block has been published on it.
Published == Send(engine.before, WithSeal(engine.block, Header(engine.block)))

\* C16: for a block with number 0, Seal returns InvalidNumber and leaves the
\* result channel as it found it, whatever the channel and the stop signal.
C16_GenesisNeverSealed ==
    (SealReturned /\ SealNumber = 0) =>
        (engine.err = "InvalidNumber" /\ engine.results = engine.before)
\* The genesis block was offered with a free slot and no stop signal fired.
C16_Witness ==
    /\ SealReturned /\ SealNumber = 0 /\ engine.err = "InvalidNumber"
    /\ CanSend(engine.before) /\ engine.stop = "open"

\* C17 as stated: for a non-genesis block Seal returns no error, publishes
\* nothing when the stop signal has fired, and publishes the block otherwise.
C17_PublishUnlessStopped ==
    (SealReturned /\ SealNumber # 0) =>
        /\ engine.err = "nil"
        /\ engine.stop = "closed" => engine.results = engine.before
        /\ engine.stop # "closed" => engine.results = Published
\* C17 amended: for a non-genesis block Seal returns no error and the channel
\* is either untouched or holds the unchanged block; the block is published
\* when the channel can take it and the stop signal has not fired, and is
\* not published when the channel cannot take it.
C17_PublishWhenTaken ==
    (SealReturned /\ SealNumber # 0) =>
        /\ engine.err = "nil"
        /\ engine.results \in {engine.before, Published}
        /\ (CanSend(engine.before) /\ engine.stop # "closed") => engine.results = Published
        /\ ~CanSend(engine.before) => engine.results = engine.before
        /\ engine.results = Published =>
              \/ engine.results.buf = Append(engine.before.buf, engine.block)
              \/ engine.results.got = Append(engine.before.got, engine.block)
\* The stop signal had fired, a slot was free, and nothing was published.
C17_Witness ==
    /\ SealReturned /\ SealNumber # 0 /\ engine.err = "nil"
    /\ engine.stop = "closed" /\ CanSend(engine.before)
    /\ engine.results = engine.before

\* C18: every call of Seal returns, and in sealBlockWith the receive that
\* follows a Seal without error finds the block in the channel.
C18_HandOffNeverBlocks ==
    /\ (engine.pc = "call") ~> SealReturned
    /\ (sealer.pc = "seal") ~> (sealer.pc = "ret" /\ sealer.err = "nil" /\ sealer.block # Nil)
    /\ [](sealer.pc = "recv" => Len(sealer.results.buf) = 1)
\* sealBlockWith received the block it had sealed.
C18_Witness ==
    /\ sealer.pc = "ret" /\ sealer.err = "nil" /\ sealer.block # Nil
    /\ sealer.results.got = sealer.block /\ sealer.results.cap = 1

\* The sealing asked for has an empty decoded list.
EmptyDecoded == sealIn.decodes /\ Len(sealIn.txList) = 0

\* C14: sealing an empty decoded list fails with an error and no block, no
\* environment having been created, on every repetition.
C14_EmptyListFails ==
    EmptyDecoded =>
        /\ sealer.env = Nil /\ sealer.block = Nil
        /\ sealer.pc \in {"start", "ret", "done"}
        /\ sealer.pc \in {"ret", "done"} => sealer.err # "nil"
        /\ \A k \in 1..Len(sealed) :
              /\ sealed[k].block = Nil /\ sealed[k].env = Nil
              /\ sealed[k].err = "too less transactions in the block"
\* The empty list was sealed MaxSeals times over.
C14_Witness ==
    /\ EmptyDecoded /\ Len(sealed) = MaxSeals /\ sealer.pc = "done"
    /\ sealed[MaxSeals].err = "too less transactions in the block"

\* The indices of the transactions tried so far, the ones that went
\* through among them, and the transactions at given indices.
TriedIndices == [k \in 1..Len(sealer.tried) |-> sealer.tried[k].i]
Succeeded == SelectSeq(sealer.tried, LAMBDA r : r.err = "nil")
TxsAt(rs) == [k \in 1..Len(rs) |-> sealer.txs[rs[k].i]]
\* The transaction the loop is at resolves its sender and commits.
SealTxGoesThrough ==
    /\ sealer.txs[sealer.i].kind # "badsig"
    /\ commitTransaction(sealer.env[1], sealer.txs[sealer.i]) = "nil"

\* C15: every iteration of the loop moves on to the next transaction,
\* adding it to the block exactly when its sender resolves and its commit
\* succeeds; the assembled block holds the transactions that went through,
\* in list order, every transaction of the list having been tried.
C15_ReplayInOrder ==
    /\ [][(sealer.pc = "loop" /\ sealer.i <= Len(sealer.txs)) =>
            /\ sealer'.pc = "loop" /\ sealer'.i = sealer.i + 1
            /\ sealer'.txs = sealer.txs
            /\ IF SealTxGoesThrough
               THEN sealer'.env[1].txs = Append(sealer.env[1].txs, sealer.txs[sealer.i])
               ELSE /\ sealer'.env = sealer.env
                    /\ Len(sealer'.commitErrs) = Len(sealer.commitErrs) + 1]_vars
    /\ [](sealer.pc \in {"seal", "recv"} \/ (sealer.pc = "ret" /\ sealer.block # Nil) =>
            /\ TriedIndices = [k \in 1..Len(sealer.txs) |-> k]
            /\ sealer.block[1].txs = TxsAt(Succeeded)
            /\ Len(sealer.commitErrs) + Len(sealer.block[1].txs) = Len(sealer.txs))
\* A block was sealed in which a transaction went through after an earlier
\* one had failed on its sender and another on its commit.
C15_Witness ==
    /\ sealer.pc = "ret" /\ sealer.block # Nil
    /\ \E a, b, c \in 1..Len(sealer.tried) :
          /\ a < c /\ b < c
          /\ sealer.tried[a].err = "ErrInvalidSig"
          /\ sealer.tried[b].err \notin {"nil", "ErrInvalidSig"}
          /\ sealer.tried[c].err = "nil"
          /\ sealer.txs[c] \in Range(sealer.block[1].txs)

C24_SealedBlockHasTransaction ==
    /\ (sealer.pc = "ret" /\ sealer.block # Nil) => Len(sealer.block[1].txs) >= 1
    /\ \A k \in 1..Len(sealed) :
          sealed[k].block # Nil => Len(sealed[k].block[1].txs) >= 1

(***************************************************************************)
(* Further properties of the List Builder.                                 *)
(***************************************************************************)
\* The errors of commitTransaction that have no case of their own.
StrangeErrors == {"ErrInsufficientFunds"}
\* The supply `txs` without its first transaction, the sender keeping the
\* rest of its queue.
OnlyHeadRemoved(before, after) ==
    LET s == Peek(before).from IN
    /\ \A t \in (DOMAIN before) \ {s} : t \in DOMAIN after /\ after[t] = before[t]
    /\ IF Len(before[s]) > 1
       THEN s \in DOMAIN after /\ after[s] = Tail(before[s])
       ELSE s \notin DOMAIN after

\* C25: when the commit of a transaction fails on a nonce too low or on an
\* error without a case of its own, the supply loses that transaction only,
\* the environment is unchanged and the build goes on.
C25_OnlyTransactionSkipped ==
    [][(Executes /\ commitTransaction(env, Peek(txs)) \in {"ErrNonceTooLow"} \cup StrangeErrors) =>
         /\ OnlyHeadRemoved(txs, txs')
         /\ env' = env
         /\ isLocal' = isLocal
         /\ pc' = "commit"]_vars
\* A sender's first transaction had too low a nonce and its second one is in
\* the list of the same build.
C25_Witness ==
    /\ pc = "done" /\ Len(txsLists) = 1
    /\ "a" \in DOMAIN pool /\ Len(pool["a"]) = 2
    /\ pool["a"][1].nonce < ParentNonce
    /\ pool["a"][2] \in Range(txsLists[1])
    /\ pool["a"][1] \notin Range(txsLists[1])

\* C26: a build reports full drainage exactly when it stopped on finding the
\* remote supply exhausted after the local one; a build stopped by the gas
\* check, the byte limit or the count limit reports false.
C26_DrainedIffExhausted ==
    /\ [](pc = "ret" =>
            /\ allTxsCommitted <=> stopped = "drained"
            /\ stopped \in {"gas", "bytes", "count", "drained"}
            /\ stopped = "drained" => (Exhausted(locals) /\ Exhausted(remotes)))
    /\ [][pc = "ret" => reports' = Append(reports, stopped = "drained")]_vars
    /\ [][(pc = "commit" /\ pc' = "ret") =>
            stopped' = IF ~EnoughGas THEN "gas"
                       ELSE IF Exhausted(txs) THEN "drained"
                       ELSE IF ~Fits(Peek(txs)) THEN "bytes"
                       ELSE "count"]_vars
\* The gas check stopped a build that had nothing left pending, and the
\* build reported false.
C26_Witness ==
    /\ pc = "ret" /\ stopped = "gas" /\ ~allTxsCommitted
    /\ Exhausted(locals) /\ Exhausted(remotes) /\ env.txs # <<>>

\* The driver has split the pending transactions and built the supplies.
Split == pc \in {"loop", "commit", "ret"} \/ (pc = "done" /\ startEnvs # <<>>)
\* The senders of the pool that the caller designated local.
DesignatedLocal == {s \in DOMAIN pool : s \in localAccounts}

\* C27: the driver puts every pending sender in exactly one supply, the
\* designated ones in the local supply; a build reads the remote supply only
\* once the local one is exhausted; in every list the transactions of local
\* senders precede those of the other senders.
C27_LocalFirst ==
    /\ [](pc = "loop" /\ startEnvs = <<>> =>
            /\ DOMAIN locals = DesignatedLocal
            /\ DOMAIN remotes = (DOMAIN pool) \ DesignatedLocal
            /\ \A s \in DOMAIN locals : locals[s] = pool[s]
            /\ \A s \in DOMAIN remotes : remotes[s] = pool[s])
    /\ [](Split => DOMAIN locals \cap DOMAIN remotes = {})
    /\ []((pc = "commit" /\ ~isLocal) => Exhausted(locals))
    /\ [][(pc = "commit" /\ remotes' # remotes) => Exhausted(locals)]_vars
    /\ [](\A n \in 1..Len(AllLists) : \A j, k \in 1..Len(AllLists[n]) :
            (AllLists[n][j].from \notin localAccounts /\ AllLists[n][k].from \in localAccounts)
                => k < j)
\* A list in which the local sender "b" comes before the better paying "a".
C27_Witness ==
    /\ pc = "done" /\ localAccounts = {"b"} /\ Len(txsLists) >= 1
    /\ Len(txsLists[1]) >= 2
    /\ txsLists[1][1].from = "b"
    /\ \E k \in 2..Len(txsLists[1]) : txsLists[1][k].from = "a"

\* The number of transactions left in a supply.
RECURSIVE SupplySize(_)
SupplySize(supply) ==
    IF DOMAIN supply = {} THEN 0
    ELSE LET s == CHOOSE t \in DOMAIN supply : TRUE
         IN Len(supply[s]) + SupplySize(Without(supply, s))
Remaining == SupplySize(locals) + SupplySize(remotes)

\* C29: every iteration of the loop of commitL2Transactions stops the
\* build, switches from the local to the remote supply, or takes at least
\* one transaction from the supplies, none being ever added; so a build
\* started is a build that returns.
C29_BuildTerminates ==
    /\ [][pc = "commit" =>
            \/ pc' = "ret"
            \/ (isLocal /\ ~isLocal' /\ Remaining' = Remaining)
            \/ (isLocal' = isLocal /\ Remaining' < Remaining)]_vars
    /\ [][pc # "start" => Remaining' <= Remaining]_vars
    /\ [][(pc = "commit" /\ ~isLocal) => ~isLocal']_vars
    /\ (pc = "commit") ~> (pc = "ret")
\* A build returned after a switch of supply, a failed transaction and a
\* committed one.
C29_Witness ==
    /\ pc = "ret" /\ ~isLocal /\ env.txs # <<>>
    /\ \E s \in DOMAIN pool : \E k \in 1..Len(pool[s]) : pool[s][k].kind = "strange"
    /\ Remaining = 0

\* The scheduler keeps running the goroutine of the build.
SpecFair == Spec /\ WF_vars(Next)

\* C30 as stated: with a transaction pending and maxTransactionsLists >= 1,
\* BuildTransactionsLists returns at least one list.
C30_ListBuiltWhenPending ==
    (pc = "done" /\ DOMAIN pool # {} /\ maxTransactionsLists >= 1) => Len(txsLists) >= 1

\* C33 as stated: every list but the last of the lists built so far holds a
\* transaction.
C33_EarlierListsNonEmpty ==
    \A k \in 1..(Len(txsLists) - 1) : txsLists[k] # <<>>

(***************************************************************************)
(* The results array of batch verification.                                *)
(***************************************************************************)
\* The workers that hold an index: received, not yet sent on done.
Holding == {w \in 1..Workers : wpc[w] \in {"work", "send"}}
\* The indices dispatched so far, and those whose verification is written.
Dispatched == 0..(cin - 1)
Written == {k \in 0..(N - 1) : errors[k + 1] # "unset"}

\* C28: the indices are dispatched one by one in increasing order, each to
\* one worker, and all of them unless the caller aborts; a slot of the
\* results array is written once, by the worker holding its index; a slot
\* the coordinator has marked checked, the only kind it reads, was written
\* before and no worker still holds its index.
C28_DisjointSlots ==
    /\ [][\A w \in 1..Workers :
            (wpc[w] = "recv" /\ wpc'[w] = "work") =>
                /\ windex'[w] = cin /\ cin' = cin + 1 /\ cin < N
                /\ \A v \in (1..Workers) \ {w} : wpc'[v] = wpc[v] /\ windex'[v] = windex[v]]_vars
    /\ [](\A v, w \in Holding : v # w => windex[v] # windex[w])
    /\ [](\A w \in Holding : windex[w] \in Dispatched /\ ~checked[windex[w] + 1])
    /\ [][errors' # errors =>
            \E w \in 1..Workers :
                /\ wpc[w] = "work" /\ wpc'[w] = "send"
                /\ errors[windex[w] + 1] = "unset"
                /\ errors' = [errors EXCEPT ![windex[w] + 1] = errors'[windex[w] + 1]]
                /\ errors'[windex[w] + 1] # "unset"]_vars
    /\ [](\A k \in 0..(N - 1) :
            checked[k + 1] => (k \in Written /\ \A w \in Holding : windex[w] # k))
    /\ [][errorsOut' # errorsOut /\ Len(errorsOut') > Len(errorsOut) =>
            (checked[cout + 1] /\ errorsOut'[Len(errorsOut')] = errors[cout + 1]
             /\ errors[cout + 1] # "unset")]_vars
    /\ [](Written \subseteq Dispatched)
    /\ []((~aborted /\ cpc = "returned") => (cin = N /\ Written = 0..(N - 1)))
\* Two workers held different indices at once, and all slots were written
\* and read.
C28_Witness ==
    /\ ~aborted /\ cpc = "returned" /\ N >= 3 /\ Workers >= 2
    /\ Written = 0..(N - 1)
    /\ Len(Delivered) = N
    /\ \E j, k \in 1..Len(completed) : j < k /\ completed[j] > completed[k]

(***************************************************************************)
(* The L1 origin store (core/rawdb) and HeadL1Origin                       *)
(* (eth/taiko_api_backend.go).  The database keeps one record per block    *)
(* identifier and the identifier of the head; db.log is the history of the *)
(* writes.                                                                 *)
(***************************************************************************)
\* Largest block identifier written.
MaxBlockID == 1
\* Largest L1 block height recorded.
MaxL1Height == 2
\* Number of writes to the database.
MaxWrites == 3

BlockIDs == 0..MaxBlockID

\* rawdb.L1Origin
L1Origins ==
    [blockID : BlockIDs, l2BlockHash : {NewHash(0)}, l1BlockHeight : 1..MaxL1Height,
     l1BlockHash : {NewHash(1), NewHash(2)}]

\* What the database holds under an identifier: the encoding of a record,
\* or bytes that do not decode.
Encoded(l1Origin) == <<l1Origin>>
Corrupt == << >>

\* rawdb.WriteL1Origin(db, blockID, l1Origin)
WriteL1Origin(d, blockID, l1Origin) ==
    [d EXCEPT !.origins = (blockID :> Encoded(l1Origin)) @@ d.origins,
              !.log = Append(@, [op |-> "origin", id |-> blockID, rec |-> l1Origin])]

\* rawdb.WriteHeadL1Origin(db, blockID)
WriteHeadL1Origin(d, blockID) ==
    [d EXCEPT !.head = <<blockID>>,
              !.log = Append(@, [op |-> "head", id |-> blockID, rec |-> Nil])]

\* rawdb.ReadHeadL1Origin(db): the identifier, Nil when none is stored.
ReadHeadL1Origin(d) == [blockID |-> d.head, err |-> "nil"]

\* rawdb.ReadL1Origin(db, blockID): the record, Nil when none is stored, an
\* error when what is stored does not decode.
ReadL1Origin(d, blockID) ==
    IF blockID \notin DOMAIN d.origins THEN [l1Origin |-> Nil, err |-> "nil"]
    ELSE IF d.origins[blockID] = Corrupt THEN [l1Origin |-> Nil, err |-> "invalid L1Origin"]
    ELSE [l1Origin |-> <<d.origins[blockID][1]>>, err |-> "nil"]

\* Mutant: an unset head identifier is read as identifier 0.
HeadL1OriginNoNilCheck(d) ==
    LET head == ReadHeadL1Origin(d)
        id == IF head.blockID = Nil THEN 0 ELSE head.blockID[1]
        origin == ReadL1Origin(d, id)
    IN IF head.err # "nil" THEN [ret |-> Nil, err |-> head.err]
       ELSE IF origin.err # "nil" THEN [ret |-> Nil, err |-> origin.err]
       ELSE IF origin.l1Origin = Nil THEN [ret |-> Nil, err |-> "NotFound"]
       ELSE [ret |-> origin.l1Origin, err |-> "nil"]

\* TaikoAPIBackend.HeadL1Origin
HeadL1Origin(d) ==
    LET head == ReadHeadL1Origin(d)
        origin == ReadL1Origin(d, head.blockID[1])
    IN IF head.err # "nil" THEN [ret |-> Nil, err |-> head.err]
       ELSE IF head.blockID = Nil THEN [ret |-> Nil, err |-> "NotFound"]
       ELSE IF origin.err # "nil" THEN [ret |-> Nil, err |-> origin.err]
       ELSE IF origin.l1Origin = Nil THEN [ret |-> Nil, err |-> "NotFound"]
       ELSE [ret |-> origin.l1Origin, err |-> "nil"]

\* The databases the node starts on: empty, or holding under identifier 0 a
\* record that does not decode, marked head or not.
InitOrigin ==
    /\ BuildIdle /\ HeaderIdle /\ BatchIdle /\ SealIdle
    /\ content = ContentOff
    /\ db \in {EmptyDb,
               [EmptyDb EXCEPT !.origins = (0 :> Corrupt)],
               [EmptyDb EXCEPT !.origins = (0 :> Corrupt), !.head = <<0>>]}
    /\ query = [QueryOff EXCEPT !.pc = "idle", !.met = db]

originFrame == <<buildVars, headerVars, batchVars, sealVars, content>>

WriteOrigin ==
    /\ query.pc # "off"
    /\ Len(db.log) < MaxWrites
    /\ \E l1Origin \in L1Origins : db' = WriteL1Origin(db, l1Origin.blockID, l1Origin)
    /\ UNCHANGED <<originFrame, query>>

WriteHead ==
    /\ query.pc # "off"
    /\ Len(db.log) < MaxWrites
    /\ \E blockID \in BlockIDs : db' = WriteHeadL1Origin(db, blockID)
    /\ UNCHANGED <<originFrame, query>>

\* A call of HeadL1Origin on the database as it is.
HeadL1OriginCall ==
    /\ query.pc # "off"
    /\ LET r == HeadL1Origin(db)
       IN query' = [pc |-> "returned", ret |-> r.ret, err |-> r.err, met |-> db]
    /\ UNCHANGED <<originFrame, db>>

NextOrigin == WriteOrigin \/ WriteHead \/ HeadL1OriginCall

SpecOrigin == InitOrigin /\ [][NextOrigin]_vars

\* The identifier last written as head and the record last written under an
\* identifier, by the history of the writes; Nil when there is none.
RECURSIVE LastHead(_)
LastHead(log) ==
    IF log = <<>> THEN Nil
    ELSE IF log[Len(log)].op = "head" THEN <<log[Len(log)].id>>
    ELSE LastHead(SubSeq(log, 1, Len(log) - 1))
RECURSIVE LastOrigin(_, _)
LastOrigin(log, id) ==
    IF log = <<>> THEN Nil
    ELSE IF log[Len(log)].op = "origin" /\ log[Len(log)].id = id THEN <<log[Len(log)].rec>>
    ELSE LastOrigin(SubSeq(log, 1, Len(log) - 1), id)

\* C23: HeadL1Origin returns NotFound and no record when no head identifier
\* is stored or no record is stored under it; when writes have set both, it
\* returns the record last written under the identifier last written as
\* head, every field equal; the call leaves the database as it was.
C23_HeadOriginLookup ==
    /\ [](query.pc = "returned" =>
            LET d == query.met IN
            /\ (d.head = Nil \/ d.head[1] \notin DOMAIN d.origins) =>
                  (query.err = "NotFound" /\ query.ret = Nil)
            /\ (LastHead(d.log) # Nil /\ LastOrigin(d.log, LastHead(d.log)[1]) # Nil) =>
                  LET written == LastOrigin(d.log, LastHead(d.log)[1])[1] IN
                  /\ query.err = "nil" /\ query.ret # Nil
                  /\ \A f \in DOMAIN written : query.ret[1][f] = written[f]
                  /\ DOMAIN query.ret[1] = DOMAIN written
            /\ query.err = "NotFound" => (d.head = Nil \/ d.head[1] \notin DOMAIN d.origins))
    /\ [][query' # query => db' = db]_vars
\* A record was written twice under the head identifier, the head having
\* been moved to it, and the call returned the second record.
C23_Witness ==
    /\ query.pc = "returned" /\ query.err = "nil" /\ query.met = db
    /\ Len(db.log) = MaxWrites
    /\ db.log[1].op = "origin" /\ db.log[2].op = "head" /\ db.log[3].op = "origin"
    /\ db.log[1].id = db.log[3].id /\ db.log[2].id = db.log[1].id
    /\ db.log[1].rec # db.log[3].rec
    /\ query.ret = <<db.log[3].rec>>

(***************************************************************************)
(* filterTxs (eth/taiko_api_backend.go).  A pending transaction is here    *)
(* its sender, its fee cap, the length of its data and its gas.            *)
(***************************************************************************)
\* The gas above which a transaction without data is left out.
HighGas == 100000
\* Longest queue of one sender handed to filterTxs.
MaxFilterLen == 2

\* Fee caps: none, the smallest, and the smallest that does not fit uint64.
FeeCaps == {0, 1, 2^IntBits}

FilterTxKinds == [feeCap : FeeCaps, dataLen : {0, 1}, gas : {TxGas, HighGas, HighGas + 1}]

\* The queues of one sender: what distinguishes two transactions is their
\* place in the queue.
FilterQueues(sender) ==
    {[k \in 1..Len(q) |-> [from |-> sender, nonce |-> k, feeCap |-> q[k].feeCap,
                           dataLen |-> q[k].dataLen, gas |-> q[k].gas]] :
        q \in UNION {[1..n -> FilterTxKinds] : n \in 1..MaxFilterLen}}

\* tx.GasFeeCap().Uint64() == 0
ZeroFee(tx) == BigUint64(tx.feeCap) = 0
\* len(tx.Data()) == 0 && tx.Gas() > 100_000
HighGasTransfer(tx) == tx.dataLen = 0 /\ tx.gas > HighGas

\* The inner loop: pendingTxs collects the transactions up to the first break.
RECURSIVE pendingTxs(_)
pendingTxs(queue) ==
    IF queue = <<>> THEN <<>>
    ELSE IF ZeroFee(Head(queue)) THEN <<>>
    ELSE IF HighGasTransfer(Head(queue)) THEN <<>>
    ELSE <<Head(queue)>> \o pendingTxs(Tail(queue))

filterTxs(pendings) ==
    [addr \in {a \in DOMAIN pendings : Len(pendingTxs(pendings[a])) > 0} |->
        pendingTxs(pendings[addr])]

\* The pending sets handed to filterTxs: a queue of "a", and none or one
\* transaction of "b".
FilterPendings ==
    {("a" :> qa) : qa \in FilterQueues("a")}
    \cup {("a" :> qa) @@ ("b" :> qb) :
            qa \in FilterQueues("a"), qb \in {q \in FilterQueues("b") : Len(q) = 1}}

(***************************************************************************)
(* TaikoAPIBackend.TxPoolContent: the handler that validates the local     *)
(* accounts itself and splits the pool content, and the handler that hands *)
(* them to BuildTransactionsLists (the handler that caps the lists of the  *)
(* splitter comes after them).  An entry of the local accounts is a    *)
(* string: the hexadecimal form of an address, the same between spaces, or *)
(* a string that is no address, of which the hexadecimal digits at its     *)
(* start, if any, are those of an address.                                 *)
(***************************************************************************)
Addresses == Senders \cup {"zero"}
LocalEntries == [form : {"hex", "spaced", "junk"}, addr : Addresses]
\* Longest list of local accounts.
MaxLocals == 2
LocalLists == UNION {[1..n -> LocalEntries] : n \in 0..MaxLocals}

\* strings.TrimSpace
TrimSpace(e) == IF e.form = "spaced" THEN [e EXCEPT !.form = "hex"] ELSE e
\* common.IsHexAddress
IsHexAddress(e) == e.form = "hex"
\* common.HexToAddress: the bytes the hexadecimal digits at the start of the
\* string decode to, as an address; never an error.
HexToAddress(e) ==
    IF e.form = "spaced" THEN "zero" ELSE e.addr

\* The handler that validates: the loop over the entries, up to the first
\* invalid one.
RECURSIVE localsAddressesOf(_)
localsAddressesOf(entries) ==
    IF entries = <<>> THEN [err |-> "nil", addrs |-> <<>>]
    ELSE IF ~IsHexAddress(TrimSpace(Head(entries)))
    THEN [err |-> "Invalid account", addrs |-> <<>>]
    ELSE LET rest == localsAddressesOf(Tail(entries))
         IN [err |-> rest.err,
             addrs |-> IF rest.err = "nil"
                       THEN <<HexToAddress(Head(entries))>> \o rest.addrs ELSE <<>>]

\* TxPoolContent, validating: an invalid entry ends the call with an error;
\* otherwise the splitter is made with the addresses and splits the pool.
TxPoolContentSplit ==
    /\ content.pc = "call" /\ content.handler = "split"
    /\ LET r == localsAddressesOf(content.locals)
       IN content' =
            IF r.err # "nil"
            THEN [content EXCEPT !.pc = "returned", !.err = r.err, !.ret = Nil]
            ELSE [content EXCEPT !.pc = "returned", !.localsAddresses = r.addrs,
                                 !.ret = <<"contentSplitter.Split(pending)">>]
    /\ UNCHANGED <<buildVars, headerVars, batchVars, sealVars, db, query>>

\* The loop of BuildTransactionsLists over localAccounts: the accounts its
\* entries convert to.
AccountsOf(entries) == {HexToAddress(entries[k]) : k \in 1..Len(entries)}

\* TxPoolContent, building: the call of BuildTransactionsLists with the
\* arguments as they came.
TxPoolContentBuild ==
    /\ content.pc = "call" /\ content.handler = "build"
    /\ pc = "off"
    /\ content' = [content EXCEPT !.pc = "building"]
    /\ pool' = content.pending
    /\ pending' = content.pending
    /\ localAccounts' = AccountsOf(content.locals)
    /\ maxTransactionsPerBlock' = content.limits.maxTransactionsPerBlock
    /\ blockMaxGasLimit' = content.limits.blockMaxGasLimit
    /\ maxBytesPerTxList' = content.limits.maxBytesPerTxList
    /\ maxTransactionsLists' = content.limits.maxTransactionsLists
    /\ pc' = "start"
    /\ UNCHANGED <<locals, remotes, env, txsLists, i, isLocal, accTxListBytes,
                   allTxsCommitted, stopped, reports, startEnvs>>
    /\ UNCHANGED <<headerVars, batchVars, sealVars, db, query>>

\* BuildTransactionsLists has returned: its lists are the result.
TxPoolContentReturn ==
    /\ content.pc = "building"
    /\ pc = "done"
    /\ content' = [content EXCEPT !.pc = "returned", !.ret = <<txsLists>>, !.err = "nil"]
    /\ UNCHANGED <<buildVars, headerVars, batchVars, sealVars, db, query>>

\* A call of filterTxs on the pending transactions.
FilterTxs ==
    /\ content.pc = "call" /\ content.handler = "filter"
    /\ content' = [content EXCEPT !.pc = "returned", !.ret = <<filterTxs(content.pending)>>]
    /\ UNCHANGED <<buildVars, headerVars, batchVars, sealVars, db, query>>

(***************************************************************************)
(* TaikoAPIBackend.TxPoolContent with the splitter of package core: the    *)
(* pool content is filtered, split, and the lists are taken up to          *)
(* maxTransactionsPerBlock transactions in all.                            *)
(***************************************************************************)
\* core.NewPoolContentSplitter: the splitter, or the validation error for a
\* local account that is no address.
NewPoolContentSplitter(entries) == localsAddressesOf(entries)

\* The ways of cutting a sequence into consecutive lists, none empty.
RECURSIVE Chunkings(_)
Chunkings(flat) ==
    IF flat = <<>> THEN {<<>>}
    ELSE UNION {{<<SubSeq(flat, 1, n)>> \o rest :
                    rest \in Chunkings(SubSeq(flat, n + 1, Len(flat)))} : n \in 1..Len(flat)}

\* The queues of the senders one after the other, in the orders a splitter
\* may take the senders.
RECURSIVE SenderOrders(_)
SenderOrders(pendings) ==
    IF DOMAIN pendings = {} THEN {<<>>}
    ELSE UNION {{pendings[a] \o rest :
                    rest \in SenderOrders([b \in DOMAIN pendings \ {a} |-> pendings[b]])} :
                a \in DOMAIN pendings}

\* contentSplitter.Split: the transactions in disjoint lists, the queue of a
\* sender in its order; where the gas and byte ceilings end a list is left
\* open, and a list holds at most maxTransactionsPerBlock transactions where
\* that ceiling admits a transaction at all.
SplitLists(pendings, ceiling) ==
    {lists \in UNION {Chunkings(flat) : flat \in SenderOrders(pendings)} :
        int(ceiling) >= 1 => \A k \in 1..Len(lists) : Len(lists[k]) <= int(ceiling)}

\* TxPoolContent up to the loop: the splitter is made, the filtered pool
\* content split.
TxPoolContentCap ==
    /\ content.pc = "call" /\ content.handler = "cap"
    /\ LET r == NewPoolContentSplitter(content.locals)
       IN IF r.err # "nil"
          THEN content' = [content EXCEPT !.pc = "returned", !.err = r.err, !.ret = Nil]
          ELSE \E lists \in SplitLists(filterTxs(content.pending),
                                       content.limits.maxTransactionsPerBlock) :
                  content' = [content EXCEPT !.pc = "range", !.localsAddresses = r.addrs,
                                             !.splitted = lists]
    /\ UNCHANGED <<buildVars, headerVars, batchVars, sealVars, db, query>>

\* txsCount+splittedTxs.Len() < int(maxTransactionsPerBlock): the list is
\* taken whole.
CapAppend ==
    /\ content.pc = "range" /\ content.splitted # <<>>
    /\ LET splittedTxs == Head(content.splitted)
       IN /\ content.txsCount + Len(splittedTxs) < int(content.limits.maxTransactionsPerBlock)
          /\ content' = [content EXCEPT !.txLists = Append(@, splittedTxs),
                                        !.txsCount = @ + Len(splittedTxs),
                                        !.splitted = Tail(@)]
    /\ UNCHANGED <<buildVars, headerVars, batchVars, sealVars, db, query>>

\* Otherwise splittedTxs[0:(int(maxTransactionsPerBlock)-txsCount)] is
\* appended and the loop left; a slice expression out of range panics.
CapCut ==
    /\ content.pc = "range" /\ content.splitted # <<>>
    /\ LET splittedTxs == Head(content.splitted)
           high == int(content.limits.maxTransactionsPerBlock) - content.txsCount
       IN /\ ~(content.txsCount + Len(splittedTxs) <
                   int(content.limits.maxTransactionsPerBlock))
          /\ content' =
               IF high < 0 \/ high > Len(splittedTxs)
               THEN [content EXCEPT !.pc = "panicked",
                                    !.err = "slice bounds out of range",
                                    !.cut = <<[list |-> splittedTxs, high |-> high]>>]
               ELSE [content EXCEPT !.pc = "returned",
                                    !.txLists = Append(@, SubSeq(splittedTxs, 1, high)),
                                    !.ret = <<Append(content.txLists,
                                                     SubSeq(splittedTxs, 1, high))>>,
                                    !.cut = <<[list |-> splittedTxs, high |-> high]>>]
    /\ UNCHANGED <<buildVars, headerVars, batchVars, sealVars, db, query>>

\* The range is over: return txLists, nil.
CapReturn ==
    /\ content.pc = "range" /\ content.splitted = <<>>
    /\ content' = [content EXCEPT !.pc = "returned", !.ret = <<content.txLists>>]
    /\ UNCHANGED <<buildVars, headerVars, batchVars, sealVars, db, query>>

\* The pending sets handed to the splitting handler: transactions with data,
\* with or without a fee cap.
CapPendings ==
    {ps \in FilterPendings :
        \A a \in DOMAIN ps : \A k \in 1..Len(ps[a]) :
            ps[a][k].dataLen = 1 /\ ps[a][k].gas = TxGas /\ ps[a][k].feeCap \in {0, 1}}

\* The ceilings tried: up to one more than the transactions of a pending
\* set, and the largest uint64.
CapCeilings == Limits(MaxFilterLen + 2)

\* The limits a caller of TxPoolContent passes on.
ContentLimits ==
    [maxTransactionsPerBlock : {MaxTxCount}, blockMaxGasLimit : GasLimits,
     maxBytesPerTxList : {1, MaxBytes + 1}, maxTransactionsLists : {1, MaxLists}]

InitContent ==
    /\ BuildIdle /\ HeaderIdle /\ BatchIdle /\ SealIdle
    /\ db = EmptyDb /\ query = QueryOff
    /\ \/ \E ps \in FilterPendings :
            content = [ContentOff EXCEPT !.pc = "call", !.handler = "filter",
                                         !.pending = ps]
       \/ \E ls \in {l \in LocalLists : Len(l) >= 1} :
            \* strings.Split gives at least one string, the empty one at worst
            content = [ContentOff EXCEPT !.pc = "call", !.handler = "split", !.locals = ls]
       \/ \E ls \in {l \in LocalLists : Len(l) <= 1}, ps \in PendingSets,
              lim \in ContentLimits :
            content = [ContentOff EXCEPT !.pc = "call", !.handler = "build", !.locals = ls,
                                         !.pending = ps, !.limits = lim]
       \/ \E ls \in {l \in LocalLists : Len(l) <= 1}, ps \in CapPendings,
              ceiling \in CapCeilings :
            content = [ContentOff EXCEPT !.pc = "call", !.handler = "cap", !.locals = ls,
                                         !.pending = ps,
                                         !.limits = [maxTransactionsPerBlock |-> ceiling]]

NextContent ==
    \/ FilterTxs
    \/ TxPoolContentSplit
    \/ TxPoolContentBuild
    \/ TxPoolContentReturn
    \/ TxPoolContentCap
    \/ CapAppend
    \/ CapCut
    \/ CapReturn
    \/ Next

SpecContent == InitContent /\ [][NextContent]_vars

\* A transaction the pre-filter is to exclude: a fee cap of zero, or no data
\* and gas above HighGas.
Excluded(tx) == tx.feeCap = 0 \/ (tx.dataLen = 0 /\ tx.gas > HighGas)
\* The longest prefix of a queue without an excluded transaction.
CleanPrefix(queue) ==
    LET bad == {k \in 1..Len(queue) : Excluded(queue[k])}
        first == IF bad = {} THEN Len(queue) + 1
                 ELSE CHOOSE k \in bad : \A j \in bad : k <= j
    IN SubSeq(queue, 1, first - 1)

\* C21 as stated: filterTxs maps every sender to the longest prefix of its
\* queue without an excluded transaction, and leaves out the senders whose
\* prefix is empty.
C21_LongestCleanPrefix ==
    (content.pc = "returned" /\ content.handler = "filter") =>
        LET ps == content.pending
            out == content.ret[1]
        IN /\ DOMAIN out = {a \in DOMAIN ps : CleanPrefix(ps[a]) # <<>>}
           /\ \A a \in DOMAIN out : out[a] = CleanPrefix(ps[a])

\* An entry of the local accounts that is no address, even between spaces.
Malformed(e) == e.form = "junk"

\* C22 as stated: a call of TxPoolContent with a malformed entry among the
\* local accounts ends with the validation error and no list, no list
\* builder having been started with accounts made of it.
C22_MalformedLocalsRejected ==
    (/\ content.pc \in {"building", "returned"}
     /\ content.handler \in {"split", "build"}
     /\ \E k \in 1..Len(content.locals) : Malformed(content.locals[k])) =>
        /\ pc = "off"
        /\ content.pc = "returned" /\ content.err = "Invalid account" /\ content.ret = Nil

\* The transactions of the lists, in all.
RECURSIVE TotalLen(_)
TotalLen(lists) == IF lists = <<>> THEN 0 ELSE Len(Head(lists)) + TotalLen(Tail(lists))

\* C32 as stated: whatever maxTransactionsPerBlock, the lists taken hold no
\* more than maxTransactionsPerBlock transactions in all, the index at which
\* a list is cut lies within the list, and the list cut is cut to what
\* remained of the allowance and is the last one returned.
C32_CutWithinCeiling ==
    (content.handler = "cap") =>
        LET ceiling == content.limits.maxTransactionsPerBlock IN
        /\ TotalLen(content.txLists) <= ceiling
        /\ content.pc # "panicked"
        /\ content.cut # Nil =>
              LET c == content.cut[1]
                  last == content.txLists[Len(content.txLists)]
              IN /\ c.high >= 0 /\ c.high <= Len(c.list)
                 /\ content.pc = "returned"
                 /\ last = SubSeq(c.list, 1, c.high)
                 /\ TotalLen(content.txLists) = ceiling

====
